---------------------------- MODULE Spec2Model ----------------------------
(***************************************************************************)
(* Incremental analysis accumulation engine of the group daily analysis    *)
(* plugin: the platform's message history, the message cleaner, the        *)
(* per-batch statistics, the per-(group, day) aggregate state with its     *)
(* merge, the state store, and the "run one incremental pass" use case of  *)
(* AnalysisApplicationService, one action per resumption between awaits.   *)
(***************************************************************************)
EXTENDS Integers, Sequences, FiniteSets, TLC

(***************************************************************************)
(* Bounds of the model and configuration values.                           *)
(***************************************************************************)
\* last instant of the clock (seconds since the epoch, scaled)
MaxClock == 2
\* messages sent to the group in one behaviour
MaxMsgs == 5
\* messages sent to the group in one behaviour with two triggers
MaxRaceMsgs == 3
\* incremental passes started in one behaviour
MaxPasses == 2
\* messages of the history when batches are merged on their own, and the
\* batches so merged
MaxDayMsgs == 3
MaxMerges == 2
\* final reports started in a behaviour
MaxFinals == 2
\* batches handed to save_batch in a behaviour
MaxBatches == 3
\* save_analysis calls made on their own in a behaviour
MaxHistorySaves == 3
\* cleanup_old_batches calls in a behaviour
MaxCleanups == 1
\* retry tasks added in a behaviour
MaxTasks == 2
\* RetryTask.max_retries
MaxRetries == 3
\* CircuitBreaker.execute calls started in a behaviour, and how far the
\* breaker's clock runs
MaxExecutions == 5
MaxBreakerTime == 5
\* record_success and record_failure calls made on a breaker directly
MaxRecords == 4
\* CircuitBreaker.failure_threshold (scaled down from 5)
FailureThreshold == 2
\* CircuitBreaker.recovery_timeout, in clock units (scaled down from 30 s)
RecoveryTimeout == 2
\* CircuitBreaker.half_open_max_calls (scaled down from 3)
HalfOpenMaxCalls == 2
\* RetryConfig.max_attempts runs from 1 to MaxAttempts (3 is its default), and
\* the retrying wrapper is called MaxRetryRuns times in a behaviour
MaxAttempts == 3
MaxRetryRuns == 2
\* the days of a behaviour run from 0 to MaxDay
MaxDay == 1
\* length of one hour in clock units (scaled down from 3600 s)
SecondsPerHour == 2
\* hours of a day: range(24) in build_final_statistics
HoursPerDay == 24
\* config: analysis_days, in days
AnalysisDays == 1
\* config: incremental_max_messages
IncrementalMaxMessages == 4
\* config: incremental_min_messages
IncrementalMinMessages == 2
\* config: incremental_topics_per_batch, incremental_quotes_per_batch
TopicsPerBatch == 2
QuotesPerBatch == 2
\* configured caps of the topics and goldenQuotes lists of a state
MaxTopics == 3
MaxQuotes == 3

Hours == 0 .. (HoursPerDay - 1)
SecondsPerDay == HoursPerDay * SecondsPerHour

\* the two triggers of a use case: the manual command and the scheduler
Procs == {"manual", "scheduler"}

Max2(a, b) == IF a >= b THEN a ELSE b

RECURSIVE SumSeq(_)
SumSeq(s) == IF s = << >> THEN 0 ELSE Head(s) + SumSeq(Tail(s))

RECURSIVE SeqMax(_)
\* max(iterable, default=0)
SeqMax(s) == IF s = << >> THEN 0
             ELSE IF Len(s) = 1 THEN Head(s) ELSE Max2(Head(s), SeqMax(Tail(s)))

Range(s) == {s[i] : i \in 1 .. Len(s)}

(***************************************************************************)
(* Text.  A text is a sequence of tokens: "x" an ordinary character, "s" a  *)
(* whitespace character, "@" a mention code <@123>, "e" a Discord custom    *)
(* emoji code <:name:1>, "/" a slash.                                       *)
(***************************************************************************)
RECURSIVE LStrip(_)
LStrip(t) == IF t # << >> /\ Head(t) = "s" THEN LStrip(Tail(t)) ELSE t

RECURSIVE RStrip(_)
RStrip(t) == IF t # << >> /\ t[Len(t)] = "s"
             THEN RStrip(SubSeq(t, 1, Len(t) - 1)) ELSE t

\* str.strip()
Strip(t) == RStrip(LStrip(t))

\* DISCORD_CUSTOM_EMOJI_PATTERN.sub("", text) and re.sub(r"<@\d+>", "", text)
RemoveCodes(t) == SelectSeq(t, LAMBDA c : c \notin {"e", "@"})

RECURSIVE Concat(_)
\* "".join(list of texts)
Concat(ts) == IF ts = << >> THEN << >> ELSE Head(ts) \o Concat(Tail(ts))

\* COMMAND_PATTERN.match: ^\s*(?:<@\d+>\s+)?/
IsCommand(t) ==
    LET a == LStrip(t)
    IN  \/ (a # << >> /\ Head(a) = "/")
        \/ /\ Len(a) >= 3
           /\ Head(a) = "@"
           /\ a[2] = "s"
           /\ LET b == LStrip(Tail(a)) IN b # << >> /\ Head(b) = "/"

(***************************************************************************)
(* Messages of the platform (UnifiedMessage as the adapter converts them). *)
(***************************************************************************)
TextC(t) == [type |-> "text", text |-> t, emoji_id |-> "", raw_data |-> ""]
EmojiC(id) == [type |-> "emoji", text |-> << >>, emoji_id |-> id, raw_data |-> ""]
ImageC(raw) == [type |-> "image", text |-> << >>, emoji_id |-> "", raw_data |-> raw]
ReplyC == [type |-> "reply", text |-> << >>, emoji_id |-> "", raw_data |-> ""]

\* text_content="".join(text_parts) in the adapter's _convert_message
RawTextContent(contents) ==
    Concat([i \in 1 .. Len(contents) |->
              IF contents[i].type = "text" THEN contents[i].text ELSE << >>])

Msg(id, ts, sender, name, contents) ==
    [message_id |-> id, timestamp |-> ts, sender_id |-> sender,
     sender_name |-> name, text_content |-> RawTextContent(contents),
     contents |-> contents]

BotSelfIds == {"bot"}
EmojiIds == {"1", "unknown"}

\* what members of the group may send; a message's timestamp is the clock
\* when it is sent and its id is its place in the history
Sendable ==
    { [sender |-> "alice", name |-> "Al",
       contents |-> <<TextC(<<"s", "x", "s", "x">>), EmojiC("1")>>],
      [sender |-> "bob", name |-> "Bob",
       contents |-> <<ImageC("mface"), TextC(<<"x", "@">>), TextC(<<"s", "x">>)>>],
      [sender |-> "carol", name |-> "",
       contents |-> <<ReplyC, TextC(<<"@", "s", "/", "x">>)>>] }

(***************************************************************************)
(* MessageCleanerService.clean_messages                                    *)
(***************************************************************************)
\* step 3 for one content segment: the cleaned segment, or none
CleanContent(c) ==
    IF c.type = "text"
    THEN LET text == Strip(RemoveCodes(c.text))
         IN  IF text # << >> THEN <<TextC(text)>> ELSE << >>
    ELSE <<c>>

CleanedContents(msg) ==
    Concat([i \in 1 .. Len(msg.contents) |-> CleanContent(msg.contents[i])])

HasMeaningfulContent(msg) ==
    \E c \in Range(CleanedContents(msg)) : c.type # "reply"

\* step 4: the message with its cleaned contents and re-joined text_content
CleanMessage(msg) ==
    LET cc == CleanedContents(msg)
    IN  [msg EXCEPT !.contents = cc, !.text_content = Strip(RawTextContent(cc))]

KeptByCleaner(msg) ==
    /\ msg.sender_id \notin BotSelfIds
    /\ ~(msg.text_content # << >> /\ IsCommand(msg.text_content))
    /\ HasMeaningfulContent(msg)

RECURSIVE clean_messages(_)
clean_messages(messages) ==
    IF messages = << >> THEN << >>
    ELSE (IF KeptByCleaner(Head(messages))
          THEN <<CleanMessage(Head(messages))>> ELSE << >>)
         \o clean_messages(Tail(messages))

(***************************************************************************)
(* Adapter: fetch_messages(group_id, days, max_count): the newest max_count *)
(* messages of the history whose time lies in [now - days, now], in time    *)
(* order.                                                                   *)
(***************************************************************************)
LastN(s, n) == IF Len(s) <= n THEN s ELSE SubSeq(s, Len(s) - n + 1, Len(s))

fetch_messages(hist, clock, days, max_count) ==
    LastN(SelectSeq(hist, LAMBDA m : /\ clock - days * SecondsPerDay <= m.timestamp
                                     /\ m.timestamp <= clock),
          max_count)

(***************************************************************************)
(* Per-batch statistics                                                    *)
(***************************************************************************)
\* datetime.fromtimestamp(ts).hour
HourOf(ts) == (ts \div SecondsPerHour) % HoursPerDay

\* UnifiedMessage.get_text_length
get_text_length(msg) == Len(msg.text_content)

CountType(msg, type) ==
    Cardinality({i \in 1 .. Len(msg.contents) : msg.contents[i].type = type})

\* characters of the TEXT segments of one message, as calculate_group_statistics
\* and analyze_user_activity add them up
TextSegmentChars(msg) ==
    SumSeq([i \in 1 .. Len(msg.contents) |->
              IF msg.contents[i].type = "text" THEN Len(msg.contents[i].text) ELSE 0])

\* StatisticsService.calculate_group_statistics
calculate_group_statistics(messages) ==
    [message_count |-> Len(messages),
     total_characters |->
        SumSeq([i \in 1 .. Len(messages) |-> TextSegmentChars(messages[i])]),
     participants |-> {messages[i].sender_id : i \in 1 .. Len(messages)},
     hour_counts |->
        [h \in Hours |->
           Cardinality({i \in 1 .. Len(messages) : HourOf(messages[i].timestamp) = h})],
     emoji_statistics |->
        [face_count |->
            SumSeq([i \in 1 .. Len(messages) |-> CountType(messages[i], "emoji")]),
         mface_count |->
            SumSeq([i \in 1 .. Len(messages) |->
               Cardinality({j \in 1 .. Len(messages[i].contents) :
                              /\ messages[i].contents[j].type = "image"
                              /\ messages[i].contents[j].raw_data = "mface"})]),
         bface_count |-> 0,
         sface_count |-> 0,
         other_emoji_count |-> 0,
         face_details |->
            [e \in EmojiIds |->
               SumSeq([i \in 1 .. Len(messages) |->
                  Cardinality({j \in 1 .. Len(messages[i].contents) :
                                 /\ messages[i].contents[j].type = "emoji"
                                 /\ messages[i].contents[j].emoji_id = e})])]]]

\* AnalysisApplicationService._compute_hourly_counts: (hourly_msg, hourly_char)
compute_hourly_char(messages) ==
    [h \in Hours |->
       SumSeq([i \in 1 .. Len(messages) |->
                 IF HourOf(messages[i].timestamp) = h
                 THEN get_text_length(messages[i]) ELSE 0])]

\* mutant: the two results are returned the other way round
compute_hourly_msg_Swapped(messages) == compute_hourly_char(messages)

\* mutant: the hour is taken once, from the first message
compute_hourly_msg_FirstHour(messages) ==
    [h \in Hours |->
       IF messages # << >> /\ HourOf(messages[1].timestamp) = h
       THEN Len(messages) ELSE 0]

compute_hourly_msg(messages) ==
    [h \in Hours |->
       Cardinality({i \in 1 .. Len(messages) : HourOf(messages[i].timestamp) = h})]

\* the last element of a non-empty sequence
Last(s) == s[Len(s)]

\* AnalysisDomainService.analyze_user_activity followed by
\* _convert_user_activity_for_merge: user_id -> entry of user_stats
UserMsgs(messages, u) == SelectSeq(messages, LAMBDA m : m.sender_id = u)

convert_user_activity_for_merge(messages) ==
    [u \in {messages[i].sender_id : i \in 1 .. Len(messages)} \ BotSelfIds |->
       LET mine == UserMsgs(messages, u)
       IN  [name |-> Last(mine).sender_name,
            message_count |-> Len(mine),
            char_count |-> SumSeq([i \in 1 .. Len(mine) |-> TextSegmentChars(mine[i])]),
            emoji_count |->
               SumSeq([i \in 1 .. Len(mine) |->
                  CountType(mine[i], "emoji")
                  + SumSeq([j \in 1 .. Len(mine[i].contents) |->
                       Len(SelectSeq(mine[i].contents[j].text, LAMBDA c : c = "e"))])]),
            active_hours |-> {HourOf(mine[i].timestamp) : i \in 1 .. Len(mine)},
            last_message_time |-> SeqMax([i \in 1 .. Len(mine) |-> mine[i].timestamp])]]

(***************************************************************************)
(* Aggregate state of one (group, day) and the batch merge.  The fields     *)
(* h_folded, h_fetched, h_refetched, h_topics and h_quotes are history      *)
(* fields: the ids of the messages merged into the state, the ids of the    *)
(* cleaned messages fetched by the passes that merged into it, those among  *)
(* them that a later such pass fetched again, and every topic and quote     *)
(* ever appended to it.  No operation of the program reads them.            *)
(***************************************************************************)
\* get_state finds nothing under the key; a trigger holds no state object
NoState == [found |-> FALSE]

EmptyState(date) ==
    [date_str |-> date,
     total_message_count |-> 0,
     total_character_count |-> 0,
     hourly_message_counts |-> [h \in Hours |-> 0],
     hourly_character_counts |-> [h \in Hours |-> 0],
     user_activities |-> << >>,
     emoji_counts |-> [face_count |-> 0, mface_count |-> 0, bface_count |-> 0,
                       sface_count |-> 0, other_emoji_count |-> 0,
                       face_details |-> [e \in EmojiIds |-> 0]],
     topics |-> << >>,
     golden_quotes |-> << >>,
     total_token_usage |-> [prompt_tokens |-> 0, completion_tokens |-> 0,
                            total_tokens |-> 0],
     all_participant_ids |-> {},
     last_analyzed_message_timestamp |-> 0,
     total_analysis_count |-> 0,
     h_folded |-> {}, h_fetched |-> {}, h_refetched |-> {},
     h_topics |-> << >>, h_quotes |-> << >>]

\* mutant: the last message time of a known user is the batch's
MergeUser_LastWins(users, delta, u) ==
    IF u \notin DOMAIN users THEN delta[u]
    ELSE IF u \notin DOMAIN delta THEN users[u]
    ELSE [users[u] EXCEPT
            !.message_count = @ + delta[u].message_count,
            !.char_count = @ + delta[u].char_count,
            !.emoji_count = @ + delta[u].emoji_count,
            !.active_hours = @ \cup delta[u].active_hours,
            !.last_message_time = delta[u].last_message_time]

\* step 2 of the merge for one user
MergeUser(users, delta, u) ==
    IF u \notin DOMAIN users THEN delta[u]
    ELSE IF u \notin DOMAIN delta THEN users[u]
    ELSE [name |-> IF delta[u].name # "" THEN delta[u].name ELSE users[u].name,
          message_count |-> users[u].message_count + delta[u].message_count,
          char_count |-> users[u].char_count + delta[u].char_count,
          emoji_count |-> users[u].emoji_count + delta[u].emoji_count,
          active_hours |-> users[u].active_hours \cup delta[u].active_hours,
          last_message_time |->
             Max2(users[u].last_message_time, delta[u].last_message_time)]

\* mutant: the list is replaced by the new entries
AppendCapped_Replaces(list, new, cap) == LastN(new, cap)

\* step 4 of the merge: append, then evict the oldest entries over the cap
AppendCapped(list, new, cap) == LastN(list \o new, cap)

\* IncrementalState.merge_batch: steps 1 to 8 of the batch merge algorithm
MergeSteps(state, b) ==
    [state EXCEPT
       !.total_message_count = @ + b.messages_count,
       !.total_character_count = @ + b.characters_count,
       !.hourly_message_counts = [h \in Hours |-> @[h] + b.hourly_msg_counts[h]],
       !.hourly_character_counts = [h \in Hours |-> @[h] + b.hourly_char_counts[h]],
       !.user_activities =
          [u \in DOMAIN @ \cup DOMAIN b.user_stats |-> MergeUser(@, b.user_stats, u)],
       !.emoji_counts =
          [face_count |-> @.face_count + b.emoji_stats.face_count,
           mface_count |-> @.mface_count + b.emoji_stats.mface_count,
           bface_count |-> @.bface_count + b.emoji_stats.bface_count,
           sface_count |-> @.sface_count + b.emoji_stats.sface_count,
           other_emoji_count |-> @.other_emoji_count + b.emoji_stats.other_emoji_count,
           face_details |->
              [e \in EmojiIds |-> @.face_details[e] + b.emoji_stats.face_details[e]]],
       !.topics = AppendCapped(@, b.new_topics, MaxTopics),
       !.golden_quotes = AppendCapped(@, b.new_quotes, MaxQuotes),
       !.total_token_usage =
          [prompt_tokens |-> @.prompt_tokens + b.token_usage.prompt_tokens,
           completion_tokens |-> @.completion_tokens + b.token_usage.completion_tokens,
           total_tokens |-> @.total_tokens + b.token_usage.total_tokens],
       !.all_participant_ids = @ \cup b.participant_ids,
       !.last_analyzed_message_timestamp = Max2(@, b.last_message_timestamp),
       !.total_analysis_count = @ + 1]

\* mutant: the watermark is set to the batch's last timestamp
merge_batch_SetsWatermark(state, b) ==
    [MergeSteps(state, b) EXCEPT
       !.last_analyzed_message_timestamp = b.last_message_timestamp]

\* mutant: the per-hour message counts are set to the batch's
merge_batch_OverwritesHours(state, b) ==
    [MergeSteps(state, b) EXCEPT !.hourly_message_counts = b.hourly_msg_counts]

merge_batch(state, b) == MergeSteps(state, b)

(***************************************************************************)
(* execute_incremental_analysis, steps 4 to 9                              *)
(***************************************************************************)
\* mutant: a message at the watermark passes
FilterByWatermark_AtOrAfter(state, messages) ==
    IF state.last_analyzed_message_timestamp > 0
    THEN SelectSeq(messages,
                   LAMBDA m : m.timestamp >= state.last_analyzed_message_timestamp)
    ELSE messages

\* mutant: the messages already merged are dropped by their ids
FilterByWatermark_ById(state, messages) ==
    SelectSeq(messages, LAMBDA m : m.message_id \notin state.h_folded)

\* step 4: drop the messages at or before the watermark
FilterByWatermark(state, messages) ==
    IF state.last_analyzed_message_timestamp > 0
    THEN SelectSeq(messages,
                   LAMBDA m : m.timestamp > state.last_analyzed_message_timestamp)
    ELSE messages

\* mutant: the threshold is one too low
BelowThreshold_OffByOne(messages) == Len(messages) < IncrementalMinMessages - 1

\* step 5
BelowThreshold(messages) == Len(messages) < IncrementalMinMessages

\* step 8f
last_message_timestamp(messages) ==
    SeqMax([i \in 1 .. Len(messages) |-> messages[i].timestamp])

\* steps 6 to 8: the arguments of merge_batch
BatchArgs(messages, topics, quotes, usage) ==
    [messages_count |-> Len(messages),
     characters_count |->
        SumSeq([i \in 1 .. Len(messages) |-> get_text_length(messages[i])]),
     hourly_msg_counts |-> compute_hourly_msg(messages),
     hourly_char_counts |-> compute_hourly_char(messages),
     user_stats |-> convert_user_activity_for_merge(messages),
     emoji_stats |-> calculate_group_statistics(messages).emoji_statistics,
     new_topics |-> topics,
     new_quotes |-> quotes,
     token_usage |-> usage,
     last_message_timestamp |-> last_message_timestamp(messages),
     participant_ids |-> {messages[i].sender_id : i \in 1 .. Len(messages)}]

\* mutant: the senders are counted, not the messages
BatchOf_CountsSenders(messages, topics, quotes, usage) ==
    [BatchArgs(messages, topics, quotes, usage) EXCEPT
       !.messages_count = Cardinality({messages[i].sender_id : i \in 1 .. Len(messages)})]

\* mutant: the last topic and the last quote of the answer are left out
BatchOf_DropsLast(messages, topics, quotes, usage) ==
    [BatchArgs(messages, topics, quotes, usage) EXCEPT
       !.new_topics = SubSeq(topics, 1, Len(topics) - 1),
       !.new_quotes = SubSeq(quotes, 1, Len(quotes) - 1)]

\* mutant: only the sender of the last message is a participant
BatchOf_LastSender(messages, topics, quotes, usage) ==
    [BatchArgs(messages, topics, quotes, usage) EXCEPT
       !.participant_ids = {messages[Len(messages)].sender_id}]

BatchOf(messages, topics, quotes, usage) == BatchArgs(messages, topics, quotes, usage)

IdsOf(messages) == {messages[i].message_id : i \in 1 .. Len(messages)}

\* what analyze_incremental_concurrent may return for the n-th batch of a
\* state: k topics, j quotes and the token usage of the call
LlmTopics(n, k) ==
    [i \in 1 .. k |-> [topic |-> <<n, i>>, contributors |-> << >>, detail |-> ""]]

LlmQuotes(n, j) ==
    [i \in 1 .. j |-> [content |-> <<n, i>>, sender |-> "", reason |-> "",
                       user_id |-> ""]]

LlmUsage(k, j) ==
    [prompt_tokens |-> 2 * (k + j), completion_tokens |-> k + j,
     total_tokens |-> 3 * (k + j)]

\* the answers of the LLM in a pass: nothing found, or as many topics and
\* quotes as were asked for
LlmAnswers == {<<0, 0>>, <<TopicsPerBatch, QuotesPerBatch>>}

\* TokenUsage(): the usage of a call that failed or was not made
NoUsage == [prompt_tokens |-> 0, completion_tokens |-> 0, total_tokens |-> 0]

\* no result has been materialized
NoAnalysisResult == [built |-> FALSE]

\* no batch is being saved
NoBatch == [batch_id |-> 0, timestamp |-> 0, messages_count |-> 0]

\* what a use case hands to its caller: the dict it returns, or the exception
\* it raises
Result(success, reason) ==
    [success |-> success, reason |-> reason, exception |-> ""]

Raised(exception) == [success |-> FALSE, reason |-> "", exception |-> exception]

\* the use case has not ended
NoResult == Result(FALSE, "none")

(***************************************************************************)
(* State of the system                                                     *)
(***************************************************************************)
VARIABLES
    now,        \* the clock
    history,    \* the group's message history on the platform, in time order
    persisted,  \* the state store: date key -> saved state, or NoState
    pc,         \* per trigger: where its incremental pass stands
    key,        \* per trigger: today_str of its pass
    unified,    \* per trigger: unified_messages of its pass
    st,         \* per trigger: the state object its pass holds
    result,     \* per trigger: what its pass returned or raised
    fault,      \* history: per trigger, the collaborator that failed in its pass
    stages,     \* history: per trigger, the stages its pass has entered
    started,    \* passes started so far
    fetched,    \* history: per trigger, ids of the cleaned messages it fetched
    before,     \* history: per trigger, the store when its pass started
    last_ts,    \* the store: the value under the key incr_last_ts_{group}
    committed,  \* history: per date key, the passes that saved and their sizes
    acc,        \* a state object that batches are merged into directly
    merged,     \* history: the batches merged into acc, in order, each with
                \* the state it was merged into
    fpc,        \* the final report: where it stands
    fst,        \* the final report: the state object it holds
    fresult,    \* the final report: what it returned or raised
    user_titles,      \* the final report: the titles the LLM gave
    analysis_result,  \* the final report: the materialized result
    summaries,  \* the history store: time key -> saved analysis summary
    finals,     \* final reports started so far
    floaded,    \* history: the state get_state gave the final report
    title_usage,      \* history: the token usage of the title call
    title_calls,      \* history: title calls made by the final report
    fsaves,     \* history: save_state calls made by the final report
    unbuilt,    \* history: the state object as it was handed to the materializer
    hbefore,    \* history: the history store when the final report started
    final_saves,   \* history: for every save_state of a final report that went
                \* well, the state the report had loaded and the state it saved
    kv_batches, \* the KV store: batch id -> batch data, under incr_batch_*
    kv_index,   \* the KV store: the batch index, under incr_batch_index_*
    sb_pc,      \* save_batch: where the call stands
    sb_batch,   \* save_batch: the batch being saved
    sb_index,   \* save_batch: the index list it read and appended to
    sb_result,  \* save_batch: what it returned
    sb_before,  \* history: the KV store when save_batch was called
    saves,      \* save_batch calls so far
    recorded,   \* history: the (group, date, time) of every save_analysis that
                \* returned True
    hsaves,     \* save_analysis calls made on their own
    retry_queue,   \* RetryManager.queue: the tasks waiting, by id
    retry_tasks,   \* the RetryTask objects: id -> retry_count, max_retries, and as
                   \* history the calls of _process_task and _send_fallback_text
    dlq,           \* RetryManager._dlq
    requeueing,    \* the tasks whose _requeue_after_delay is asleep
    running,       \* RetryManager.running
    worker_pc,     \* where the worker stands
    worker_task,   \* the task the worker took from the queue
    breaker,       \* the CircuitBreaker object: its fields
    breaker_time,  \* time.time() as the breaker reads it
    calls,         \* per caller: where its CircuitBreaker.execute stands
    executed,      \* CircuitBreaker.execute calls so far
    events,        \* history: every record_success, record_failure and reset, with
                   \* the state before and after and the failure count after
    llm_breaker,   \* the CircuitBreaker object of utils.resilience: its fields
    llm_events,    \* history: every record_success and record_failure on it,
                   \* with the state before and after and the count after
    retry_pc,      \* RetryExecutor.execute / retry_async: where the call stands
    retry_cfg,     \* its configuration: max_attempts, and which of the two it is
    attempt,       \* its loop variable
    last_exception,   \* its last_exception
    retry_outcome, \* what it returned or raised
    func_calls,    \* history: the outcome of every call of the wrapped function
    on_retry_calls,   \* history: the arguments of every on_retry call
    retry_runs,    \* calls of the retrying wrapper so far
    cl_pc,         \* cleanup_old_batches: where the call stands
    cl_before,     \* cleanup_old_batches: before_timestamp
    cl_expired,    \* cleanup_old_batches: the expired entries still to delete
    cl_retained,   \* cleanup_old_batches: the entries it keeps
    cl_result,     \* cleanup_old_batches: deleted_count
    cleanups,      \* cleanup_old_batches calls so far
    cutoffs,       \* history: the before_timestamp of every cleanup so far
    rl_tokens,     \* RateLimiter._tokens
    rl_elapsed,    \* the time since RateLimiter._last_update, up to RlFillTime
    rl_lock,       \* RateLimiter._lock: the caller holding it, or Unlocked
    rl_waiters,    \* RateLimiter._lock: the callers waiting for it, in order
    rl_calls,      \* acquire: each caller's call
    rl_sleep       \* acquire: what is left of the lock holder's sleep

envVars == <<now, history>>
passVars == <<pc, key, unified, st, result, fault, stages, started, fetched,
              before>>
storeVars == <<persisted, last_ts, committed>>
mergeVars == <<acc, merged>>
finalVars == <<fpc, fst, fresult, user_titles, analysis_result, summaries, finals,
               floaded, title_usage, title_calls, fsaves, unbuilt, hbefore,
               final_saves>>
batchVars == <<kv_batches, kv_index, sb_pc, sb_batch, sb_index, sb_result,
               sb_before, saves>>

historyVars == <<recorded, hsaves>>
queueVars == <<retry_queue, retry_tasks, dlq, requeueing, running, worker_pc,
               worker_task>>
breakerVars == <<breaker, breaker_time, calls, executed, events>>
retryVars == <<retry_pc, retry_cfg, attempt, last_exception, retry_outcome,
               func_calls, on_retry_calls, retry_runs>>
llmBreakerVars == <<llm_breaker, llm_events>>
resilienceVars == <<breakerVars, llmBreakerVars, retryVars>>
cleanupVars == <<cl_pc, cl_before, cl_expired, cl_retained, cl_result, cleanups,
                 cutoffs>>
limiterVars == <<rl_tokens, rl_elapsed, rl_lock, rl_waiters, rl_calls, rl_sleep>>
utilVars == <<historyVars, queueVars, resilienceVars, cleanupVars, limiterVars>>
coreVars == <<envVars, passVars, storeVars, mergeVars, finalVars, batchVars>>

vars == <<envVars, passVars, storeVars, mergeVars, finalVars, batchVars, utilVars>>

\* dt.datetime.now().strftime("%Y-%m-%d")
DateOf(ts) == ts \div SecondsPerDay

DateKeys == 0 .. MaxDay

\* get_kv_data(key, None) found nothing; a variable that holds None
None == [none |-> TRUE]

\* the coroutines that call CircuitBreaker.execute
\* the coroutines that call RateLimiter.acquire
Acquirers == {"a1", "a2"}
\* RateLimiter(rate, burst): tokens per unit of time, and the bucket's capacity
RlRate == 1
RlBurst == 2
\* the largest tokens argument of acquire, and the largest timeout
MaxAsk == 3
MaxTimeout == 1
\* the time an empty bucket takes to fill
RlFillTime == (RlBurst + RlRate - 1) \div RlRate
\* asyncio.Lock.locked() is False
Unlocked == "unlocked"
\* timeout: Optional[float]
Timeouts == {None} \cup {[seconds |-> t] : t \in 0 .. MaxTimeout}
\* a caller that has not called acquire
NoAcquire == [pc |-> "idle", tokens |-> 0, timeout |-> None, waited |-> 0,
              result |-> FALSE]
Callers == {"c1", "c2"}

\* CircuitBreaker(name): the fields as the dataclass sets them
NewBreaker ==
    [state |-> "closed", failure_count |-> 0, success_count |-> 0,
     last_failure_time |-> 0, half_open_calls |-> 0]

\* utils.resilience.CircuitBreaker(): the fields as __init__ sets them
NewLlmBreaker == [state |-> "CLOSED", failure_count |-> 0, last_failure_time |-> 0]

\* a caller that is not inside CircuitBreaker.execute
NoCall ==
    [pc |-> "idle", fallback |-> FALSE, invoked |-> FALSE, outcome |-> "none",
     refused |-> FALSE]

\* what a call of the wrapped function, or of the retrying wrapper, gave:
\* a result returned or an exception raised
Returned(value) == [kind |-> "returned", value |-> value]
Raising(e) == [kind |-> "raised", value |-> e]
NoOutcome == [kind |-> "none", value |-> "none"]

\* a retrying wrapper that has not been called
NoRetryConfig == [max_attempts |-> 1, kind |-> "none", on_retry |-> FALSE]

Init ==
    /\ now = 1
    /\ history = << >>
    /\ persisted = [d \in DateKeys |-> NoState]
    /\ pc = [p \in Procs |-> "idle"]
    /\ key = [p \in Procs |-> 0]
    /\ unified = [p \in Procs |-> << >>]
    /\ st = [p \in Procs |-> NoState]
    /\ result = [p \in Procs |-> NoResult]
    /\ fault = [p \in Procs |-> "none"]
    /\ stages = [p \in Procs |-> << >>]
    /\ started = 0
    /\ fetched = [p \in Procs |-> {}]
    /\ before = [p \in Procs |-> [d \in DateKeys |-> NoState]]
    /\ last_ts = 0
    /\ committed = [d \in DateKeys |-> [passes |-> 0, messages |-> 0]]
    /\ acc = EmptyState(0)
    /\ merged = << >>
    /\ fpc = "idle"
    /\ fst = NoState
    /\ fresult = NoResult
    /\ user_titles = << >>
    /\ analysis_result = NoAnalysisResult
    /\ summaries = << >>
    /\ finals = 0
    /\ floaded = NoState
    /\ title_usage = NoUsage
    /\ title_calls = 0
    /\ fsaves = 0
    /\ unbuilt = NoState
    /\ hbefore = << >>
    /\ final_saves = << >>
    /\ kv_batches = << >>
    /\ kv_index = << >>
    /\ sb_pc = "idle"
    /\ sb_batch = NoBatch
    /\ sb_index = << >>
    /\ sb_result = "none"
    /\ sb_before = [batches |-> << >>, index |-> << >>]
    /\ saves = 0
    /\ recorded = {}
    /\ hsaves = 0
    /\ retry_queue = << >>
    /\ retry_tasks = << >>
    /\ dlq = << >>
    /\ requeueing = {}
    /\ running = FALSE
    /\ worker_pc = "stopped"
    /\ worker_task = 0
    /\ breaker = NewBreaker
    /\ breaker_time = 1
    /\ calls = [c \in Callers |-> NoCall]
    /\ executed = 0
    /\ events = << >>
    /\ llm_breaker = NewLlmBreaker
    /\ llm_events = << >>
    /\ retry_pc = "idle"
    /\ retry_cfg = NoRetryConfig
    /\ attempt = 0
    /\ last_exception = None
    /\ retry_outcome = NoOutcome
    /\ func_calls = << >>
    /\ on_retry_calls = << >>
    /\ retry_runs = 0
    /\ cl_pc = "idle"
    /\ cl_before = 0
    /\ cl_expired = << >>
    /\ cl_retained = << >>
    /\ cl_result = 0
    /\ cleanups = 0
    /\ cutoffs = {}
    /\ rl_tokens = RlBurst
    /\ rl_elapsed = 0
    /\ rl_lock = Unlocked
    /\ rl_waiters = << >>
    /\ rl_calls = [c \in Acquirers |-> NoAcquire]
    /\ rl_sleep = 0

(***************************************************************************)
(* The platform: a member sends a message, time passes.                    *)
(***************************************************************************)
Send ==
    /\ Len(history) < MaxMsgs
    /\ \E k \in Sendable :
          history' = Append(history,
                            Msg(Len(history) + 1, now, k.sender, k.name, k.contents))
    /\ UNCHANGED <<now, passVars, storeVars, mergeVars, finalVars, batchVars, utilVars>>

Tick ==
    /\ now < MaxClock
    /\ now' = now + 1
    /\ UNCHANGED <<history, passVars, storeVars, mergeVars, finalVars, batchVars, utilVars>>

\* time passes until the next day begins
Midnight ==
    /\ DateOf(now) < MaxDay
    /\ now' = (DateOf(now) + 1) * SecondsPerDay
    /\ UNCHANGED <<history, passVars, storeVars, mergeVars, finalVars, batchVars, utilVars>>

(***************************************************************************)
(* IncrementalStore: get_or_create_state, save_state                        *)
(***************************************************************************)
\* the state under the key, or not-found
get_state(store, date) == store[date]

\* mutant: the freshly created state is written to the store
get_or_create_state_Persists(store, date) ==
    IF store[date] = NoState
    THEN [state |-> EmptyState(date),
          store |-> [store EXCEPT ![date] = EmptyState(date)]]
    ELSE [state |-> store[date], store |-> store]

\* the state handed to the caller and the store afterwards
get_or_create_state(store, date) ==
    [state |-> IF store[date] = NoState THEN EmptyState(date) ELSE store[date],
     store |-> store]

\* the store after a save that succeeded or failed, and what save reports
save_state(store, state, ok) ==
    [store |-> IF ok THEN [store EXCEPT ![state.date_str] = state] ELSE store,
     reported |-> ok]

\* IncrementalStore.update_last_analyzed_timestamp: put_kv_data(key, timestamp)
update_last_analyzed_timestamp(timestamp) ==
    /\ last_ts' = timestamp
    /\ UNCHANGED <<envVars, passVars, mergeVars, finalVars, batchVars, utilVars, persisted, committed>>

\* a caller of the store records the timestamp of a message it has analyzed
UpdateLastAnalyzedTimestamp ==
    \E timestamp \in 0 .. now : update_last_analyzed_timestamp(timestamp)

(***************************************************************************)
(* execute_incremental_analysis, from one await to the next                *)
(***************************************************************************)
\* step 1: the bot manager has no adapter for the platform asked for
NoAdapter(p) ==
    /\ pc[p] = "idle"
    /\ started < MaxPasses
    /\ started' = started + 1
    /\ before' = [before EXCEPT ![p] = persisted]
    /\ pc' = [pc EXCEPT ![p] = "raised"]
    /\ result' = [result EXCEPT ![p] = Raised("ValueError")]
    /\ UNCHANGED <<envVars, storeVars, mergeVars, finalVars, batchVars, utilVars, key, unified,
                   st, fault, stages, fetched>>

\* steps 1 to 3: the fetch returns, with the messages or, the adapter having
\* caught a failure, with none; the messages are cleaned and the state of today
\* is asked of the store
Fetch(p) ==
    /\ pc[p] = "idle"
    /\ started < MaxPasses
    /\ started' = started + 1
    /\ before' = [before EXCEPT ![p] = persisted]
    /\ \E failed \in BOOLEAN :
          LET raw_messages ==
                 IF failed THEN << >>
                 ELSE fetch_messages(history, now, AnalysisDays, IncrementalMaxMessages)
          IN  /\ fault' = [fault EXCEPT ![p] = IF failed THEN "fetch" ELSE "none"]
              /\ IF raw_messages = << >>
                 THEN /\ pc' = [pc EXCEPT ![p] = "done"]
                      /\ result' = [result EXCEPT ![p] = Result(FALSE, "no_messages")]
                      /\ stages' = [stages EXCEPT ![p] = <<"fetching", "done">>]
                      /\ UNCHANGED <<key, unified, fetched>>
                 ELSE /\ pc' = [pc EXCEPT ![p] = "loading"]
                      /\ unified' = [unified EXCEPT ![p] = clean_messages(raw_messages)]
                      /\ fetched' = [fetched EXCEPT
                                       ![p] = IdsOf(clean_messages(raw_messages))]
                      /\ key' = [key EXCEPT ![p] = DateOf(now)]
                      /\ stages' = [stages EXCEPT ![p] = <<"fetching", "filtering">>]
                      /\ UNCHANGED result
    /\ UNCHANGED <<envVars, storeVars, mergeVars, finalVars, batchVars, utilVars, st>>

\* steps 4 to 7: the store answers; the messages are filtered by the watermark
\* and counted against the threshold, and the LLM is asked
LoadState(p) ==
    /\ pc[p] = "loading"
    /\ LET got == get_or_create_state(persisted, key[p])
           state == got.state
           messages == FilterByWatermark(state, unified[p])
       IN  /\ persisted' = got.store
           /\ unified' = [unified EXCEPT ![p] = messages]
           /\ st' = [st EXCEPT ![p] = state]
           /\ IF BelowThreshold(messages)
              THEN /\ pc' = [pc EXCEPT ![p] = "done"]
                   /\ result' = [result EXCEPT ![p] = Result(FALSE, "below_threshold")]
                   /\ stages' = [stages EXCEPT ![p] = @ \o <<"thresholdCheck", "done">>]
              ELSE /\ pc' = [pc EXCEPT ![p] = "analyzing"]
                   /\ stages' =
                         [stages EXCEPT ![p] = @ \o <<"thresholdCheck", "analyzing">>]
                   /\ UNCHANGED result
    /\ UNCHANGED <<envVars, mergeVars, finalVars, batchVars, utilVars, last_ts, committed, key, fault, started,
                   fetched, before>>

\* the state after merging the batch of `messages` with the LLM's answer a
MergeMessages(state, messages, a) ==
    [merge_batch(state,
                 BatchOf(messages,
                         LlmTopics(state.total_analysis_count + 1, a[1]),
                         LlmQuotes(state.total_analysis_count + 1, a[2]),
                         LlmUsage(a[1], a[2])))
       EXCEPT !.h_topics = @ \o LlmTopics(state.total_analysis_count + 1, a[1]),
              !.h_quotes = @ \o LlmQuotes(state.total_analysis_count + 1, a[2])]

\* mutant: the failure of the LLM is swallowed and the pass goes on to save
OnLlmError_GoesOn == "persisting"

\* where the pass stands after the LLM call has raised: nothing catches it
OnLlmError == "raised"

\* step 7: the LLM call fails
LlmRaise(p) ==
    /\ pc[p] = "analyzing"
    /\ pc' = [pc EXCEPT ![p] = OnLlmError]
    /\ result' = [result EXCEPT ![p] = Raised("LlmError")]
    /\ fault' = [fault EXCEPT ![p] = "llm"]
    /\ UNCHANGED <<envVars, storeVars, mergeVars, finalVars, batchVars, utilVars, key, unified, st,
                   stages, started, fetched, before>>

\* steps 8 and 9: the LLM answers; the batch is built and merged into the state
\* object, and the store is asked to save it
LlmReturn(p) ==
    /\ pc[p] = "analyzing"
    /\ \E a \in LlmAnswers :
          st' = [st EXCEPT ![p] =
                   [MergeMessages(@, unified[p], a)
                      EXCEPT !.h_folded = @ \cup IdsOf(unified[p]),
                             !.h_refetched = @ \cup (st[p].h_fetched \cap fetched[p]),
                             !.h_fetched = @ \cup fetched[p]]]
    /\ pc' = [pc EXCEPT ![p] = "persisting"]
    /\ stages' = [stages EXCEPT ![p] = @ \o <<"merging", "persisting">>]
    /\ UNCHANGED <<envVars, storeVars, mergeVars, finalVars, batchVars, utilVars, key, unified, result, fault,
                   started, fetched, before>>

\* step 10: the store has written the state, or has failed to and says so; the
\* pass does not look at what save_state reports and returns success
SaveState(p) ==
    /\ pc[p] = "persisting"
    /\ \E ok \in BOOLEAN :
          LET saved == save_state(persisted, st[p], ok)
          IN  /\ persisted' = saved.store
              /\ fault' = [fault EXCEPT ![p] = IF saved.reported THEN @ ELSE "save"]
              /\ committed' =
                    IF saved.reported
                    THEN [committed EXCEPT
                            ![st[p].date_str] =
                               [passes |-> @.passes + 1,
                                messages |-> @.messages + Len(unified[p])]]
                    ELSE committed
    /\ pc' = [pc EXCEPT ![p] = "done"]
    /\ result' = [result EXCEPT ![p] = Result(TRUE, "")]
    /\ stages' = [stages EXCEPT ![p] = Append(@, "done")]
    /\ UNCHANGED <<envVars, mergeVars, finalVars, batchVars, utilVars, key, unified, st, started, fetched, before,
                   last_ts>>

\* the caller has the result or the exception; the trigger may fire again
Return(p) ==
    /\ pc[p] \in {"done", "raised"}
    /\ pc' = [pc EXCEPT ![p] = "idle"]
    /\ unified' = [unified EXCEPT ![p] = << >>]
    /\ st' = [st EXCEPT ![p] = NoState]
    /\ fetched' = [fetched EXCEPT ![p] = {}]
    /\ before' = [before EXCEPT ![p] = [d \in DateKeys |-> NoState]]
    /\ key' = [key EXCEPT ![p] = 0]
    /\ result' = [result EXCEPT ![p] = NoResult]
    /\ fault' = [fault EXCEPT ![p] = "none"]
    /\ stages' = [stages EXCEPT ![p] = << >>]
    /\ UNCHANGED <<envVars, storeVars, mergeVars, finalVars, batchVars, utilVars, started>>

Pass(p) ==
    \/ NoAdapter(p)
    \/ Fetch(p)
    \/ LoadState(p)
    \/ LlmRaise(p)
    \/ LlmReturn(p)
    \/ SaveState(p)
    \/ Return(p)

\* the manual command and the scheduler trigger passes independently
Next ==
    \/ (Len(history) < MaxRaceMsgs /\ Send)
    \/ Tick
    \/ UpdateLastAnalyzedTimestamp
    \/ \E p \in Procs : Pass(p)

Spec == Init /\ [][Next]_vars

\* one trigger only: passes run one after the other
NextSeq == Send \/ Tick \/ Pass("scheduler")

SpecSeq == Init /\ [][NextSeq]_vars

(***************************************************************************)
(* The batch merge on its own: any run of cleaned messages of the history   *)
(* is made a batch and merged into acc, whatever was merged before.         *)
(***************************************************************************)
Day == clean_messages(history)

SliceOf(b) == SubSeq(Day, b.from, b.to)

\* the LLM found as many topics and quotes as were asked for
FullAnswer == <<TopicsPerBatch, QuotesPerBatch>>

MergeSlice ==
    /\ Len(merged) < MaxMerges
    /\ Len(history) <= MaxDayMsgs
    /\ \E i \in 1 .. Len(Day) :
       \E j \in i .. Len(Day) :
          /\ acc' = MergeMessages(acc, SubSeq(Day, i, j), FullAnswer)
          /\ merged' = Append(merged, [from |-> i, to |-> j, answer |-> FullAnswer,
                                     into |-> acc])
    /\ UNCHANGED <<envVars, passVars, storeVars, finalVars, batchVars, utilVars>>

\* the LLM found nothing, at no cost
NoAnswer == <<0, 0>>

\* a batch of no messages is merged into acc
MergeEmpty ==
    /\ Len(merged) < MaxMerges
    /\ Len(history) <= MaxDayMsgs
    /\ acc' = MergeMessages(acc, << >>, NoAnswer)
    /\ merged' = Append(merged, [from |-> 1, to |-> 0, answer |-> NoAnswer,
                                into |-> acc])
    /\ UNCHANGED <<envVars, passVars, storeVars, finalVars, batchVars, utilVars>>

\* the messages of the day are all there before the first batch is merged
\* one trigger, on a day and on the day after; within a day the clock stands
NextDays == Send \/ Midnight \/ Pass("scheduler")

SpecDays == Init /\ [][NextDays]_vars

NextMerge ==
    \/ (merged = << >> /\ Len(history) < MaxDayMsgs /\ Send)
    \/ (merged = << >> /\ Tick)
    \/ MergeSlice
    \/ MergeEmpty

SpecMerge == Init /\ [][NextMerge]_vars

RECURSIVE MergeAll(_, _)
\* the state after merging the batches bs into state, first to last
MergeAll(state, bs) ==
    IF bs = << >> THEN state
    ELSE MergeAll(MergeMessages(state, SliceOf(Head(bs)), Head(bs).answer), Tail(bs))

(***************************************************************************)
(* IncrementalMergeService.build_final_statistics: the statistics of the    *)
(* final report, read off a state.                                          *)
(***************************************************************************)
build_final_statistics(state) ==
    [message_count |-> state.total_message_count,
     total_characters |-> state.total_character_count,
     participant_count |-> Cardinality(state.all_participant_ids),
     hourly_activity |-> [h \in Hours |-> state.hourly_message_counts[h]],
     emoji_statistics |->
        [face_count |-> state.emoji_counts.face_count,
         mface_count |-> state.emoji_counts.mface_count,
         bface_count |-> state.emoji_counts.bface_count,
         sface_count |-> state.emoji_counts.sface_count,
         other_emoji_count |-> state.emoji_counts.other_emoji_count,
         face_details |-> state.emoji_counts.face_details]]

\* IncrementalMergeService.build_topics_for_report: a SummaryTopic per topic
build_topics_for_report(state) ==
    [i \in 1 .. Len(state.topics) |->
       [topic |-> state.topics[i].topic,
        contributors |-> state.topics[i].contributors,
        detail |-> state.topics[i].detail]]

\* IncrementalMergeService.build_quotes_for_report: a GoldenQuote per quote
build_quotes_for_report(state) ==
    [i \in 1 .. Len(state.golden_quotes) |->
       [content |-> state.golden_quotes[i].content,
        sender |-> state.golden_quotes[i].sender,
        reason |-> state.golden_quotes[i].reason,
        user_id |-> state.golden_quotes[i].user_id]]

\* the dict build_analysis_result returns
AnalysisResultOf(state, titles) ==
    [built |-> TRUE,
     statistics |->
        [message_count |-> build_final_statistics(state).message_count,
         total_characters |-> build_final_statistics(state).total_characters,
         participant_count |-> build_final_statistics(state).participant_count,
         hourly_activity |-> build_final_statistics(state).hourly_activity,
         emoji_statistics |-> build_final_statistics(state).emoji_statistics,
         token_usage |-> state.total_token_usage,
         golden_quotes |-> build_quotes_for_report(state)],
     topics |-> build_topics_for_report(state),
     user_titles |-> titles,
     user_analysis |-> state.user_activities]

\* mutant: the topics are taken out of the state as they are converted
build_analysis_result_Drains(state, titles) ==
    [result |-> AnalysisResultOf(state, titles),
     state |-> [state EXCEPT !.topics = << >>]]

\* IncrementalMergeService.build_analysis_result: the dict it returns and
\* the state object as the call leaves it
build_analysis_result(state, titles) ==
    [result |-> AnalysisResultOf(state, titles), state |-> state]

(***************************************************************************)
(* AnalysisApplicationService.execute_incremental_final_report.  A step is *)
(* the code between two awaits; the caller's adapter and the title switch   *)
(* of the configuration are chosen freely.                                  *)
(***************************************************************************)
\* LLMAnalyzer.analyze_user_titles: titles and the usage of the call, or no
\* titles and TokenUsage() when the call failed inside
TitleAnswers ==
    {[titles |-> << >>, usage |-> NoUsage],
     [titles |-> <<"title">>,
      usage |-> [prompt_tokens |-> 2, completion_tokens |-> 1, total_tokens |-> 3]]}

\* mutant: only a state with no merged batch counts as no data
NoIncrementalData_CountOnly(state) ==
    state # NoState /\ state.total_analysis_count = 0

\* step 2: not state or state.total_analysis_count == 0
NoIncrementalData(state) ==
    state = NoState \/ state.total_analysis_count = 0

\* mutant: the title call is counted as a batch
add_title_token_usage_CountsBatch(state, usage) ==
    [state EXCEPT
       !.total_token_usage =
          [prompt_tokens |-> @.prompt_tokens + usage.prompt_tokens,
           completion_tokens |-> @.completion_tokens + usage.completion_tokens,
           total_tokens |-> @.total_tokens + usage.total_tokens],
       !.total_analysis_count = @ + 1]

\* the usage of the title call is added to the state's token totals
add_title_token_usage(state, usage) ==
    [state EXCEPT
       !.total_token_usage =
          [prompt_tokens |-> @.prompt_tokens + usage.prompt_tokens,
           completion_tokens |-> @.completion_tokens + usage.completion_tokens,
           total_tokens |-> @.total_tokens + usage.total_tokens]]

\* HistoryManager.save_analysis: the summary kept of an analysis result
SummaryOf(res) ==
    [message_count |-> res.statistics.message_count,
     participant_count |-> res.statistics.participant_count,
     topics |-> [i \in 1 .. Len(res.topics) |->
                   [topic |-> res.topics[i].topic, detail |-> res.topics[i].detail]],
     user_titles_count |-> Len(res.user_titles)]

\* plugin.put_kv_data(key, value)
put_kv_data(kv, k, value) ==
    [x \in DOMAIN kv \cup {k} |-> IF x = k THEN value ELSE kv[x]]

\* str.replace(":", "-") on a time slot
ReplaceColon(t) == [i \in 1 .. Len(t) |-> IF t[i] = ":" THEN "-" ELSE t[i]]

\* f"analysis_{group_id}_{date_str}_{time_str}"
HistoryKey(group_id, date_str, time_str) ==
    <<"a", "n", "a", "l", "y", "s", "i", "s", "_">>
       \o group_id \o <<"_">> \o date_str \o <<"_">> \o time_str

\* a number below 100 in two decimal digits
TwoDigits(n) ==
    LET digit == <<"0", "1", "2", "3", "4", "5", "6", "7", "8", "9">>
    IN  <<digit[(n \div 10) + 1], digit[(n % 10) + 1]>>

\* now.strftime("%Y-%m-%d"), the day counted from the epoch
DateStr(clock) == TwoDigits(DateOf(clock))

\* now.strftime("%H-%M"), the clock unit within the hour standing for the minute
TimeStr(clock) == TwoDigits(HourOf(clock)) \o <<"-">> \o TwoDigits(clock % SecondsPerHour)

\* the group the passes and the final report are run for
GroupId == <<"4", "2">>

\* HistoryManager.save_analysis: the summary is put under the key of the
\* group, the date and the time slot, or the put fails and False is returned
save_analysis(store, group_id, res, date_str, time_str, ok) ==
    IF ok
    THEN put_kv_data(store, HistoryKey(group_id, date_str, ReplaceColon(time_str)),
                     SummaryOf(res))
    ELSE store

\* mutant: the time slot is looked up as it was given
get_history_AsGiven(store, group_id, date_str, time_str) ==
    IF HistoryKey(group_id, date_str, time_str) \in DOMAIN store
    THEN store[HistoryKey(group_id, date_str, time_str)]
    ELSE None

\* HistoryManager.get_history
get_history(store, group_id, date_str, time_str) ==
    IF HistoryKey(group_id, date_str, ReplaceColon(time_str)) \in DOMAIN store
    THEN store[HistoryKey(group_id, date_str, ReplaceColon(time_str))]
    ELSE None

\* HistoryManager.has_history
has_history(store, group_id, date_str, time_str) ==
    get_history(store, group_id, date_str, time_str) # None

\* steps 1 to 3, and step 5 when no title call is to be made
FinalLoad ==
    /\ fpc = "idle"
    /\ finals < MaxFinals
    /\ finals' = finals + 1
    /\ hbefore' = summaries
    /\ fsaves' = 0
    /\ title_usage' = NoUsage
    /\ user_titles' = << >>
    /\ LET state == get_state(persisted, DateOf(now))
       IN  /\ floaded' = state
           /\ IF NoIncrementalData(state)
              THEN /\ fpc' = "done"
                   /\ fresult' = Result(FALSE, "no_incremental_data")
                   /\ fst' = state
                   /\ title_calls' = 0
                   /\ UNCHANGED <<analysis_result, unbuilt>>
              ELSE \E adapter, user_title_enabled \in BOOLEAN :
                      IF ~adapter
                      THEN /\ fpc' = "raised"
                           /\ fresult' = Raised("ValueError")
                           /\ fst' = state
                           /\ title_calls' = 0
                           /\ UNCHANGED <<analysis_result, unbuilt>>
                      ELSE IF state = NoState
                      THEN /\ fpc' = "raised"
                           /\ fresult' = Raised("AttributeError")
                           /\ fst' = state
                           /\ title_calls' = 0
                           /\ UNCHANGED <<analysis_result, unbuilt>>
                      ELSE IF user_title_enabled /\ state.user_activities # << >>
                      THEN /\ fpc' = "titling"
                           /\ fst' = state
                           /\ title_calls' = 1
                           /\ UNCHANGED <<fresult, analysis_result, unbuilt>>
                      ELSE /\ fpc' = "recording"
                           /\ unbuilt' = state
                           /\ fst' = build_analysis_result(state, << >>).state
                           /\ analysis_result' =
                                 build_analysis_result(state, << >>).result
                           /\ title_calls' = 0
                           /\ UNCHANGED fresult
    /\ UNCHANGED <<envVars, passVars, storeVars, mergeVars, batchVars, utilVars, summaries,
                   final_saves>>

\* step 4: the title call returns and its usage is added to the state
TitleReturn ==
    /\ fpc = "titling"
    /\ \E a \in TitleAnswers :
          /\ user_titles' = a.titles
          /\ title_usage' = a.usage
          /\ fst' = add_title_token_usage(fst, a.usage)
    /\ fpc' = "saving"
    /\ UNCHANGED <<envVars, passVars, storeVars, mergeVars, batchVars, utilVars, fresult,
                   analysis_result, summaries, finals, floaded, title_calls, fsaves,
                   unbuilt, hbefore, final_saves>>

\* step 4, the save of the token totals, whose failure is logged only, and
\* step 5
TitleSave ==
    /\ fpc = "saving"
    /\ \E ok \in BOOLEAN :
          /\ persisted' = save_state(persisted, fst, ok).store
          /\ final_saves' = IF ok
                            THEN Append(final_saves, [loaded |-> floaded, saved |-> fst])
                            ELSE final_saves
    /\ fsaves' = fsaves + 1
    /\ unbuilt' = fst
    /\ fst' = build_analysis_result(fst, user_titles).state
    /\ analysis_result' = build_analysis_result(fst, user_titles).result
    /\ fpc' = "recording"
    /\ UNCHANGED <<envVars, passVars, mergeVars, batchVars, utilVars, last_ts, committed,
                   fresult, user_titles, summaries, finals, floaded, title_usage,
                   title_calls, hbefore>>

\* step 6, whose outcome is not looked at, and the return
FinalRecord ==
    /\ fpc = "recording"
    /\ \E ok \in BOOLEAN :
          summaries' = save_analysis(summaries, GroupId, analysis_result, DateStr(now),
                                     TimeStr(now), ok)
    /\ fresult' = Result(TRUE, "")
    /\ fpc' = "done"
    /\ UNCHANGED <<envVars, passVars, storeVars, mergeVars, batchVars, utilVars, fst,
                   user_titles, analysis_result, finals, floaded, title_usage,
                   title_calls, fsaves, unbuilt, hbefore, final_saves>>

\* the caller has the result; the state object is dropped
FinalReturn ==
    /\ fpc \in {"done", "raised"}
    /\ fpc' = "idle"
    /\ fst' = NoState
    /\ fresult' = NoResult
    /\ user_titles' = << >>
    /\ analysis_result' = NoAnalysisResult
    /\ floaded' = NoState
    /\ title_usage' = NoUsage
    /\ title_calls' = 0
    /\ fsaves' = 0
    /\ unbuilt' = NoState
    /\ hbefore' = << >>
    /\ UNCHANGED <<envVars, passVars, storeVars, mergeVars, batchVars, utilVars, summaries,
                   finals, final_saves>>

\* the scheduler's passes and the final report of the day
NextFinal ==
    \/ (Len(history) < MaxRaceMsgs /\ Send)
    \/ Tick
    \/ Pass("scheduler")
    \/ FinalLoad
    \/ TitleReturn
    \/ TitleSave
    \/ FinalRecord
    \/ FinalReturn

\* the scheduler's passes beside one final report, with messages enough for
\* a pass to merge after the final report has loaded a state
NextFinalRace ==
    \/ (Len(history) < MaxRaceMsgs + 1 /\ Send)
    \/ Tick
    \/ Pass("scheduler")
    \/ (finals = 0 /\ FinalLoad)
    \/ TitleReturn
    \/ TitleSave
    \/ FinalRecord
    \/ FinalReturn

SpecFinalRace == Init /\ [][NextFinalRace]_vars

SpecFinal == Init /\ [][NextFinal]_vars

(***************************************************************************)
(* IncrementalStore.save_batch.  A step is the code between two awaits of   *)
(* the KV store; each put and get either succeeds or raises, and the task   *)
(* may be cancelled while it waits.                                         *)
(***************************************************************************)
\* the entry of a batch in the index
IndexEntry(batch) == [batch_id |-> batch.batch_id, timestamp |-> batch.timestamp]

\* save_batch is called with a new batch; batch ids are never reused
SaveBatch ==
    /\ sb_pc = "idle"
    /\ saves < MaxBatches
    /\ saves' = saves + 1
    /\ \E n \in 1 .. IncrementalMaxMessages :
          sb_batch' = [batch_id |-> saves + 1, timestamp |-> now,
                       messages_count |-> n]
    /\ sb_before' = [batches |-> kv_batches, index |-> kv_index]
    /\ sb_result' = "none"
    /\ sb_index' = << >>
    /\ sb_pc' = "put_batch"
    /\ UNCHANGED <<envVars, passVars, storeVars, mergeVars, finalVars, utilVars, kv_batches,
                   kv_index>>

\* 1. the batch data is put under its own key
PutBatchData ==
    /\ sb_pc = "put_batch"
    /\ \E ok \in BOOLEAN :
          IF ok
          THEN /\ kv_batches' = put_kv_data(kv_batches, sb_batch.batch_id, sb_batch)
               /\ sb_pc' = "get_index"
               /\ UNCHANGED sb_result
          ELSE /\ sb_pc' = "returned"
               /\ sb_result' = "False"
               /\ UNCHANGED kv_batches
    /\ UNCHANGED <<envVars, passVars, storeVars, mergeVars, finalVars, utilVars, kv_index,
                   sb_batch, sb_index, sb_before, saves>>

\* 2. _get_index, which gives an empty list when the read fails, and the
\* append of the new entry
GetIndex ==
    /\ sb_pc = "get_index"
    /\ \E ok \in BOOLEAN :
          sb_index' = Append(IF ok THEN kv_index ELSE << >>, IndexEntry(sb_batch))
    /\ sb_pc' = "save_index"
    /\ UNCHANGED <<envVars, passVars, storeVars, mergeVars, finalVars, utilVars, kv_batches,
                   kv_index, sb_batch, sb_result, sb_before, saves>>

\* _save_index, which raises when the put fails, and the return
SaveIndex ==
    /\ sb_pc = "save_index"
    /\ \E ok \in BOOLEAN :
          IF ok
          THEN /\ kv_index' = sb_index
               /\ sb_result' = "True"
          ELSE /\ sb_result' = "False"
               /\ UNCHANGED kv_index
    /\ sb_pc' = "returned"
    /\ UNCHANGED <<envVars, passVars, storeVars, mergeVars, finalVars, utilVars, kv_batches,
                   sb_batch, sb_index, sb_before, saves>>

\* the task is cancelled at an await: CancelledError is not an Exception and
\* goes past the handler
CancelSaveBatch ==
    /\ sb_pc \in {"put_batch", "get_index", "save_index"}
    /\ sb_pc' = "returned"
    /\ sb_result' = "cancelled"
    /\ UNCHANGED <<envVars, passVars, storeVars, mergeVars, finalVars, utilVars, kv_batches,
                   kv_index, sb_batch, sb_index, sb_before, saves>>

\* the caller has the outcome
SaveBatchDone ==
    /\ sb_pc = "returned"
    /\ sb_pc' = "idle"
    /\ sb_batch' = NoBatch
    /\ sb_index' = << >>
    /\ sb_result' = "none"
    /\ sb_before' = [batches |-> << >>, index |-> << >>]
    /\ UNCHANGED <<envVars, passVars, storeVars, mergeVars, finalVars, utilVars, kv_batches,
                   kv_index, saves>>

\* batches are saved one after the other as time passes
NextStore ==
    \/ Tick
    \/ SaveBatch
    \/ PutBatchData
    \/ GetIndex
    \/ SaveIndex
    \/ CancelSaveBatch
    \/ SaveBatchDone

SpecStore == Init /\ [][NextStore]_vars

(***************************************************************************)
(* IncrementalStore.cleanup_old_batches, running beside save_batch on the   *)
(* same group.  A step is the code between two awaits of the KV store.      *)
(***************************************************************************)
\* the entries of an index older than before_timestamp, and the others
Expired(index, before_timestamp) ==
    SelectSeq(index, LAMBDA entry : entry.timestamp < before_timestamp)

Retained(index, before_timestamp) ==
    SelectSeq(index, LAMBDA entry : ~(entry.timestamp < before_timestamp))

\* cleanup_old_batches is called
CleanupOldBatches ==
    /\ cl_pc = "idle"
    /\ cleanups < MaxCleanups
    /\ cleanups' = cleanups + 1
    /\ \E before_timestamp \in 1 .. MaxClock + 1 :
          /\ cl_before' = before_timestamp
          /\ cutoffs' = cutoffs \cup {before_timestamp}
    /\ cl_pc' = "get_index"
    /\ UNCHANGED <<coreVars, historyVars, queueVars, resilienceVars, limiterVars, cl_expired,
                   cl_retained, cl_result>>

\* _get_index, which gives an empty list when the read fails; the entries
\* are split, and the call returns 0 when none is expired
CleanupGetIndex ==
    /\ cl_pc = "get_index"
    /\ \E ok \in BOOLEAN :
          LET index == IF ok THEN kv_index ELSE << >>
              expired == Expired(index, cl_before)
          IN  IF expired = << >>
              THEN /\ cl_pc' = "returned"
                   /\ UNCHANGED <<cl_expired, cl_retained>>
              ELSE /\ cl_pc' = "delete"
                   /\ cl_expired' = expired
                   /\ cl_retained' = Retained(index, cl_before)
    /\ cl_result' = 0
    /\ UNCHANGED <<coreVars, historyVars, queueVars, resilienceVars, limiterVars, cl_before,
                   cleanups, cutoffs>>

\* put_kv_data(batch_key, None) for the next expired entry; a failure is
\* logged and the entry is not counted
CleanupDelete ==
    /\ cl_pc = "delete"
    /\ \E ok \in BOOLEAN :
          /\ kv_batches' = IF ok
                           THEN put_kv_data(kv_batches, Head(cl_expired).batch_id, None)
                           ELSE kv_batches
          /\ cl_result' = IF ok THEN cl_result + 1 ELSE cl_result
    /\ cl_expired' = Tail(cl_expired)
    /\ cl_pc' = IF Tail(cl_expired) = << >> THEN "save_index" ELSE "delete"
    /\ UNCHANGED <<envVars, passVars, storeVars, mergeVars, finalVars, historyVars,
                   queueVars, resilienceVars, limiterVars, kv_index, sb_pc, sb_batch, sb_index,
                   sb_result, sb_before, saves, cl_before, cl_retained, cleanups,
                   cutoffs>>

\* _save_index(group_id, retained), which raises when the put fails, and
\* the return of deleted_count
CleanupSaveIndex ==
    /\ cl_pc = "save_index"
    /\ \E ok \in BOOLEAN :
          IF ok
          THEN /\ kv_index' = cl_retained
               /\ cl_pc' = "returned"
          ELSE /\ cl_pc' = "raised"
               /\ UNCHANGED kv_index
    /\ UNCHANGED <<envVars, passVars, storeVars, mergeVars, finalVars, historyVars,
                   queueVars, resilienceVars, limiterVars, kv_batches, sb_pc, sb_batch, sb_index,
                   sb_result, sb_before, saves, cl_before, cl_expired, cl_retained,
                   cl_result, cleanups, cutoffs>>

\* the caller has the outcome
CleanupDone ==
    /\ cl_pc \in {"returned", "raised"}
    /\ cl_pc' = "idle"
    /\ cl_before' = 0
    /\ cl_expired' = << >>
    /\ cl_retained' = << >>
    /\ cl_result' = 0
    /\ UNCHANGED <<coreVars, historyVars, queueVars, resilienceVars, limiterVars, cleanups,
                   cutoffs>>

\* batches are saved as time passes, and old ones are cleaned up meanwhile
NextCleanup ==
    \/ NextStore
    \/ CleanupOldBatches
    \/ CleanupGetIndex
    \/ CleanupDelete
    \/ CleanupSaveIndex
    \/ CleanupDone

SpecCleanup == Init /\ [][NextCleanup]_vars

\* the calls of the store made one after the other: none starts or goes on
\* while another is under way
NextStoreCalls ==
    \/ cl_pc = "idle" /\ NextStore
    \/ /\ sb_pc = "idle"
       /\ \/ CleanupOldBatches
          \/ CleanupGetIndex
          \/ CleanupDelete
          \/ CleanupSaveIndex
          \/ CleanupDone

SpecStoreCalls == Init /\ [][NextStoreCalls]_vars

(***************************************************************************)
(* HistoryManager on its own: summaries are saved for groups, dates and     *)
(* time slots chosen by the caller.                                         *)
(***************************************************************************)
GroupIds == {<<"4">>, GroupId}

DateStrs == {<<"0", "8">>, <<"0", "9">>}

\* time slots as callers write them, with ':' or with '-'
TimeSlots == {<<"1", ":", "0">>, <<"1", "-", "0">>, <<"2", "-", "0">>}

\* analysis results of a day with no titles, and of a day with one
AnalysisResults ==
    {AnalysisResultOf(EmptyState(0), << >>), AnalysisResultOf(EmptyState(0), <<"title">>)}

SaveAnalysis ==
    /\ hsaves < MaxHistorySaves
    /\ hsaves' = hsaves + 1
    /\ \E group_id \in GroupIds, date_str \in DateStrs, time_str \in TimeSlots,
          res \in AnalysisResults, ok \in BOOLEAN :
          /\ summaries' = save_analysis(summaries, group_id, res, date_str, time_str, ok)
          /\ recorded' = IF ok THEN recorded \cup {<<group_id, date_str, time_str>>}
                         ELSE recorded
    /\ UNCHANGED <<envVars, passVars, storeVars, mergeVars, batchVars, queueVars,
                   resilienceVars, cleanupVars, limiterVars, fpc,
                   fst, fresult, user_titles, analysis_result, finals, floaded,
                   title_usage, title_calls, fsaves, unbuilt, hbefore, final_saves>>

NextHistory == SaveAnalysis

SpecHistory == Init /\ [][NextHistory]_vars

(***************************************************************************)
(* RetryManager: the queue of image reports to send again, its worker and   *)
(* the dead-letter queue.  A step of the worker is the code between two     *)
(* awaits.                                                                  *)
(***************************************************************************)
\* RetryTask(...): retry_count and max_retries as the dataclass sets them
RetryTask ==
    [retry_count |-> 0, max_retries |-> MaxRetries, h_attempts |-> 0,
     h_fallbacks |-> 0, h_sent |-> FALSE]

\* task.retry_count += 1
CountRetry(task) == [task EXCEPT !.retry_count = @ + 1]

\* mutant: a task at max_retries is sent round once more
ShouldRequeue_Inclusive(task) == task.retry_count <= task.max_retries

\* task.retry_count < task.max_retries
ShouldRequeue(task) == task.retry_count < task.max_retries

\* RetryManager.start
Start ==
    /\ ~running
    /\ running' = TRUE
    /\ worker_pc' = "getting"
    /\ worker_task' = 0
    /\ UNCHANGED <<coreVars, historyVars, resilienceVars, cleanupVars, limiterVars,
                   retry_queue, retry_tasks, dlq, requeueing>>

\* RetryManager.stop: the worker is cancelled where it waits, and the task
\* it holds is dropped with it
Stop ==
    /\ running
    /\ running' = FALSE
    /\ worker_pc' = "stopped"
    /\ worker_task' = 0
    /\ UNCHANGED <<coreVars, historyVars, resilienceVars, cleanupVars, limiterVars,
                   retry_queue, retry_tasks, dlq, requeueing>>

\* RetryManager.add_task, which starts the manager when it is not running
AddTask ==
    /\ Len(retry_tasks) < MaxTasks
    /\ retry_tasks' = Append(retry_tasks, RetryTask)
    /\ retry_queue' = Append(retry_queue, Len(retry_tasks) + 1)
    /\ running' = TRUE
    /\ worker_pc' = IF running THEN worker_pc ELSE "getting"
    /\ UNCHANGED <<coreVars, historyVars, resilienceVars, cleanupVars, limiterVars,
                   dlq, requeueing, worker_task>>

\* the worker takes a task from the queue and calls _process_task
WorkerGet ==
    /\ worker_pc = "getting"
    /\ retry_queue # << >>
    /\ worker_task' = Head(retry_queue)
    /\ retry_queue' = Tail(retry_queue)
    /\ retry_tasks' = [retry_tasks EXCEPT ![Head(retry_queue)].h_attempts = @ + 1]
    /\ worker_pc' = "processing"
    /\ UNCHANGED <<coreVars, historyVars, resilienceVars, cleanupVars, limiterVars,
                   dlq, requeueing, running>>

\* _process_task has returned True
WorkerSuccess ==
    /\ worker_pc = "processing"
    /\ retry_tasks' = [retry_tasks EXCEPT ![worker_task].h_sent = TRUE]
    /\ worker_pc' = IF running THEN "getting" ELSE "stopped"
    /\ worker_task' = 0
    /\ UNCHANGED <<coreVars, historyVars, resilienceVars, cleanupVars, limiterVars,
                   retry_queue, dlq, requeueing, running>>

\* _process_task has returned False: the task is sent round again after a
\* delay, or put on the dead-letter queue and the text fallback is called
WorkerFailure ==
    /\ worker_pc = "processing"
    /\ LET task == CountRetry(retry_tasks[worker_task])
       IN  IF ShouldRequeue(task)
           THEN /\ retry_tasks' = [retry_tasks EXCEPT ![worker_task] = task]
                /\ requeueing' = requeueing \cup {worker_task}
                /\ worker_pc' = IF running THEN "getting" ELSE "stopped"
                /\ worker_task' = 0
                /\ UNCHANGED dlq
           ELSE /\ retry_tasks' =
                      [retry_tasks EXCEPT
                         ![worker_task] = [task EXCEPT !.h_fallbacks = @ + 1]]
                /\ dlq' = Append(dlq, worker_task)
                /\ worker_pc' = "fallback"
                /\ UNCHANGED <<requeueing, worker_task>>
    /\ UNCHANGED <<coreVars, historyVars, resilienceVars, cleanupVars, limiterVars,
                   retry_queue, running>>

\* _send_fallback_text has returned
FallbackReturn ==
    /\ worker_pc = "fallback"
    /\ worker_pc' = IF running THEN "getting" ELSE "stopped"
    /\ worker_task' = 0
    /\ UNCHANGED <<coreVars, historyVars, resilienceVars, cleanupVars, limiterVars,
                   retry_queue, retry_tasks, dlq, requeueing,
                   running>>

\* mutant: the delayed requeue wakes up and puts nothing back
RequeueAfterDelay_Drops ==
    /\ \E id \in requeueing : requeueing' = requeueing \ {id}
    /\ UNCHANGED <<coreVars, historyVars, resilienceVars, cleanupVars, limiterVars,
                   retry_queue, retry_tasks, dlq, running, worker_pc, worker_task>>

\* _requeue_after_delay wakes up and puts the task back
RequeueAfterDelay ==
    /\ \E id \in requeueing :
          /\ retry_queue' = Append(retry_queue, id)
          /\ requeueing' = requeueing \ {id}
    /\ UNCHANGED <<coreVars, historyVars, resilienceVars, cleanupVars, limiterVars,
                   retry_tasks, dlq, running, worker_pc,
                   worker_task>>

NextQueue ==
    \/ Start
    \/ Stop
    \/ AddTask
    \/ WorkerGet
    \/ WorkerSuccess
    \/ WorkerFailure
    \/ FallbackReturn
    \/ RequeueAfterDelay

\* the manager while it keeps running: stop is not called
NextRunning ==
    \/ Start
    \/ AddTask
    \/ WorkerGet
    \/ WorkerSuccess
    \/ WorkerFailure
    \/ FallbackReturn
    \/ RequeueAfterDelay

\* the event loop runs the worker whenever it can go on: queue.get returns
\* when the queue holds a task, _process_task and _send_fallback_text
\* return, and asyncio.sleep wakes up
SpecRunning ==
    /\ Init
    /\ [][NextRunning]_vars
    /\ WF_vars(WorkerGet)
    /\ WF_vars(WorkerSuccess \/ WorkerFailure)
    /\ WF_vars(FallbackReturn)
    /\ WF_vars(RequeueAfterDelay)

SpecQueue == Init /\ [][NextQueue]_vars

(***************************************************************************)
(* CircuitBreaker: the breaker object and the callers of its execute.  A   *)
(* step of execute is the code between two awaits, so that a call can be   *)
(* inside the protected function while another one trips the breaker.      *)
(***************************************************************************)
\* CircuitBreaker._transition_to
transition_to(cb, new_state) ==
    LET moved == [cb EXCEPT !.state = new_state]
    IN  IF new_state = "closed"
        THEN [moved EXCEPT !.failure_count = 0, !.success_count = 0]
        ELSE IF new_state = "half_open"
             THEN [moved EXCEPT !.half_open_calls = 0]
             ELSE moved

\* mutant: the breaker is taken to have recovered at once
Recovered_AtOnce(cb, t) == TRUE

\* time.time() - self._last_failure_time >= self.recovery_timeout
Recovered(cb, t) == t - cb.last_failure_time >= RecoveryTimeout

\* CircuitBreaker.state: the property, which moves an OPEN breaker to
\* HALF_OPEN once it has recovered; the breaker as the read leaves it
breaker_state(cb, t) ==
    IF cb.state = "open" /\ Recovered(cb, t)
    THEN transition_to(cb, "half_open")
    ELSE cb

\* mutant: a success in CLOSED leaves the failure count alone
record_success_KeepsCount(cb) ==
    IF cb.state = "half_open"
    THEN LET counted == [cb EXCEPT !.success_count = @ + 1]
         IN  IF counted.success_count >= HalfOpenMaxCalls
             THEN transition_to(counted, "closed")
             ELSE counted
    ELSE cb

\* CircuitBreaker.record_success
record_success(cb) ==
    IF cb.state = "half_open"
    THEN LET counted == [cb EXCEPT !.success_count = @ + 1]
         IN  IF counted.success_count >= HalfOpenMaxCalls
             THEN transition_to(counted, "closed")
             ELSE counted
    ELSE IF cb.state = "closed"
         THEN [cb EXCEPT !.failure_count = 0]
         ELSE cb

\* CircuitBreaker.record_failure at time t
record_failure(cb, t) ==
    LET counted == [cb EXCEPT !.failure_count = @ + 1, !.last_failure_time = t]
    IN  IF counted.state = "half_open"
        THEN transition_to(counted, "open")
        ELSE IF counted.state = "closed" /\ counted.failure_count >= FailureThreshold
             THEN transition_to(counted, "open")
             ELSE counted

\* CircuitBreaker.can_execute at time t: the breaker as the call leaves it,
\* and what it returned
can_execute(cb, t) ==
    LET read == breaker_state(cb, t)
    IN  IF read.state = "closed"
        THEN [breaker |-> read, allowed |-> TRUE]
        ELSE IF read.state = "open"
             THEN [breaker |-> read, allowed |-> FALSE]
             ELSE LET counted == [read EXCEPT !.half_open_calls = @ + 1]
                  IN  [breaker |-> counted,
                       allowed |-> counted.half_open_calls <= HalfOpenMaxCalls]

\* CircuitBreaker.reset
reset(cb) == transition_to(cb, "closed")

\* an entry of the history of the breaker
Event(kind, cb, after) ==
    [kind |-> kind, before |-> cb.state, after |-> after.state,
     failure_count |-> after.failure_count]

\* time.time() moves on
BreakerTick ==
    /\ breaker_time < MaxBreakerTime
    /\ breaker_time' = breaker_time + 1
    /\ UNCHANGED <<coreVars, historyVars, queueVars, cleanupVars, limiterVars, retryVars, llmBreakerVars,
                   breaker, calls,
                   executed, events>>

\* CircuitBreaker.execute up to its first await: the call is refused, and
\* then the fallback is called or the exception raised, or the protected
\* function is called
Execute(c) ==
    /\ calls[c].pc = "idle"
    /\ executed < MaxExecutions
    /\ executed' = executed + 1
    /\ \E fallback \in BOOLEAN :
          LET checked == can_execute(breaker, breaker_time)
              refused == /\ breaker.state = "open"
                         /\ breaker_time - breaker.last_failure_time < RecoveryTimeout
              call == [NoCall EXCEPT !.fallback = fallback, !.refused = refused]
          IN  /\ breaker' = checked.breaker
              /\ calls' =
                    [calls EXCEPT
                       ![c] = IF ~checked.allowed
                              THEN IF fallback
                                   THEN [call EXCEPT !.pc = "fallback"]
                                   ELSE [call EXCEPT !.pc = "raised",
                                                     !.outcome = "breaker_open"]
                              ELSE [call EXCEPT !.pc = "func", !.invoked = TRUE]]
    /\ UNCHANGED <<coreVars, historyVars, queueVars, cleanupVars, limiterVars, retryVars, llmBreakerVars,
                   breaker_time, events>>

\* the protected function has returned: record_success, return result
FuncReturns(c) ==
    /\ calls[c].pc = "func"
    /\ breaker' = record_success(breaker)
    /\ events' = Append(events, Event("success", breaker, breaker'))
    /\ calls' = [calls EXCEPT ![c].pc = "returned", ![c].outcome = "result"]
    /\ UNCHANGED <<coreVars, historyVars, queueVars, cleanupVars, limiterVars, retryVars, llmBreakerVars,
                   breaker_time, executed>>

\* the protected function has raised: record_failure, raise
FuncRaises(c) ==
    /\ calls[c].pc = "func"
    /\ breaker' = record_failure(breaker, breaker_time)
    /\ events' = Append(events, Event("failure", breaker, breaker'))
    /\ calls' = [calls EXCEPT ![c].pc = "raised", ![c].outcome = "error"]
    /\ UNCHANGED <<coreVars, historyVars, queueVars, cleanupVars, limiterVars, retryVars, llmBreakerVars,
                   breaker_time, executed>>

\* the fallback has returned: return await fallback(*args, **kwargs)
FallbackReturns(c) ==
    /\ calls[c].pc = "fallback"
    /\ calls' = [calls EXCEPT ![c].pc = "returned", ![c].outcome = "fallback"]
    /\ UNCHANGED <<coreVars, historyVars, queueVars, cleanupVars, limiterVars, retryVars, llmBreakerVars,
                   breaker, breaker_time,
                   executed, events>>

\* the caller has its answer and may call again
CallEnds(c) ==
    /\ calls[c].pc \in {"returned", "raised"}
    /\ calls' = [calls EXCEPT ![c] = NoCall]
    /\ UNCHANGED <<coreVars, historyVars, queueVars, cleanupVars, limiterVars, retryVars, llmBreakerVars,
                   breaker, breaker_time,
                   executed, events>>

\* CircuitBreaker.reset, called on a breaker that is not as new
Reset ==
    /\ breaker.state # "closed" \/ breaker.failure_count > 0
    /\ Len(events) < MaxExecutions + MaxRecords
    /\ breaker' = reset(breaker)
    /\ events' = Append(events, Event("reset", breaker, breaker'))
    /\ UNCHANGED <<coreVars, historyVars, queueVars, cleanupVars, limiterVars, retryVars, llmBreakerVars,
                   breaker_time, calls,
                   executed>>

(***************************************************************************)
(* The CircuitBreaker of utils.resilience, whose methods the caller calls  *)
(* itself around a request.                                                *)
(***************************************************************************)
\* CircuitBreaker._open_circuit at time t
open_circuit(cb, t) == [cb EXCEPT !.state = "OPEN", !.last_failure_time = t]

\* CircuitBreaker._close_circuit
close_circuit(cb) == [cb EXCEPT !.state = "CLOSED", !.failure_count = 0]

\* CircuitBreaker._half_open_circuit
half_open_circuit(cb) == [cb EXCEPT !.state = "HALF_OPEN"]

\* utils.resilience.CircuitBreaker.record_failure at time t
llm_record_failure(cb, t) ==
    LET counted == [cb EXCEPT !.failure_count = @ + 1]
    IN  IF counted.state = "CLOSED" /\ counted.failure_count >= FailureThreshold
        THEN open_circuit(counted, t)
        ELSE IF counted.state = "HALF_OPEN"
             THEN open_circuit(counted, t)
             ELSE counted

\* utils.resilience.CircuitBreaker.record_success
llm_record_success(cb) ==
    IF cb.state = "HALF_OPEN"
    THEN close_circuit(cb)
    ELSE IF cb.state = "CLOSED"
         THEN [cb EXCEPT !.failure_count = 0]
         ELSE cb

\* utils.resilience.CircuitBreaker.allow_request at time t: the breaker as
\* the call leaves it, and what it returned
allow_request(cb, t) ==
    IF cb.state = "OPEN"
    THEN IF t - cb.last_failure_time > RecoveryTimeout
         THEN [breaker |-> half_open_circuit(cb), allowed |-> TRUE]
         ELSE [breaker |-> cb, allowed |-> FALSE]
    ELSE [breaker |-> cb, allowed |-> TRUE]

\* a caller asks allow_request before a request
AllowRequest ==
    /\ llm_breaker' = allow_request(llm_breaker, breaker_time).breaker
    /\ UNCHANGED <<coreVars, historyVars, queueVars, cleanupVars, limiterVars, retryVars, breakerVars,
                   llm_events>>

\* a caller reports a request that went well
LlmRecordSuccess ==
    /\ Len(llm_events) < MaxRecords
    /\ llm_breaker' = llm_record_success(llm_breaker)
    /\ llm_events' = Append(llm_events, Event("success", llm_breaker, llm_breaker'))
    /\ UNCHANGED <<coreVars, historyVars, queueVars, cleanupVars, limiterVars, retryVars, breakerVars>>

\* a caller reports a request that failed
LlmRecordFailure ==
    /\ Len(llm_events) < MaxRecords
    /\ llm_breaker' = llm_record_failure(llm_breaker, breaker_time)
    /\ llm_events' = Append(llm_events, Event("failure", llm_breaker, llm_breaker'))
    /\ UNCHANGED <<coreVars, historyVars, queueVars, cleanupVars, limiterVars, retryVars, breakerVars>>

(***************************************************************************)
(* The methods of the CircuitBreaker of infrastructure.resilience, called  *)
(* by a caller that does without execute.                                  *)
(***************************************************************************)
\* CircuitBreaker.can_execute
CanExecute ==
    /\ breaker.half_open_calls <= HalfOpenMaxCalls
    /\ breaker' = can_execute(breaker, breaker_time).breaker
    /\ UNCHANGED <<coreVars, historyVars, queueVars, cleanupVars, limiterVars, retryVars, llmBreakerVars,
                   breaker_time, calls, executed, events>>

\* CircuitBreaker.record_success
RecordSuccess ==
    /\ Len(events) < MaxRecords
    /\ breaker' = record_success(breaker)
    /\ events' = Append(events, Event("success", breaker, breaker'))
    /\ UNCHANGED <<coreVars, historyVars, queueVars, cleanupVars, limiterVars, retryVars, llmBreakerVars,
                   breaker_time, calls, executed>>

\* CircuitBreaker.record_failure
RecordFailure ==
    /\ Len(events) < MaxRecords
    /\ breaker' = record_failure(breaker, breaker_time)
    /\ events' = Append(events, Event("failure", breaker, breaker'))
    /\ UNCHANGED <<coreVars, historyVars, queueVars, cleanupVars, limiterVars, retryVars, llmBreakerVars,
                   breaker_time, calls, executed>>

NextBreaker ==
    \/ BreakerTick
    \/ \E c \in Callers :
          \/ Execute(c)
          \/ FuncReturns(c)
          \/ FuncRaises(c)
          \/ FallbackReturns(c)
          \/ CallEnds(c)
    \/ Reset

SpecBreaker == Init /\ [][NextBreaker]_vars

\* the methods of both breakers, called in any order
NextRecord ==
    \/ BreakerTick
    \/ CanExecute
    \/ RecordSuccess
    \/ RecordFailure
    \/ Reset
    \/ AllowRequest
    \/ LlmRecordSuccess
    \/ LlmRecordFailure

SpecRecord == Init /\ [][NextRecord]_vars

(***************************************************************************)
(* retry_async and RetryExecutor.execute: the loop that calls the wrapped  *)
(* function again after a retryable exception.  The two are the same loop; *)
(* retry_async takes an on_retry callback besides.                         *)
(***************************************************************************)
\* the results the wrapped function returns
FuncResults == {"r1", "r2"}

\* retry_exceptions, and the exceptions the wrapped function raises
RetryExceptions == {"TimeoutError", "ConnectionError"}
FuncExceptions == RetryExceptions \cup {"ValueError"}

\* the configurations of a call
RetryConfigs ==
    {[max_attempts |-> n, kind |-> "RetryExecutor", on_retry |-> FALSE] :
        n \in 1 .. MaxAttempts}
    \cup {[max_attempts |-> n, kind |-> "retry_async", on_retry |-> cb] :
             n \in 1 .. MaxAttempts, cb \in BOOLEAN}

\* mutant: the last attempt is followed by one more
MoreAttempts_OneMore(i, max_attempts) == i < max_attempts

\* attempt < max_attempts - 1: the loop has an iteration left
MoreAttempts(i, max_attempts) == i < max_attempts - 1

\* the wrapper is called: last_exception = None, and the first iteration
\* calls the wrapped function
RetryCall ==
    /\ retry_pc \in {"idle", "returned", "raised"}
    /\ retry_runs < MaxRetryRuns
    /\ retry_runs' = retry_runs + 1
    /\ \E cfg \in RetryConfigs : retry_cfg' = cfg
    /\ attempt' = 0
    /\ last_exception' = None
    /\ retry_outcome' = NoOutcome
    /\ func_calls' = << >>
    /\ on_retry_calls' = << >>
    /\ retry_pc' = "func"
    /\ UNCHANGED <<coreVars, historyVars, queueVars, cleanupVars, limiterVars, breakerVars, llmBreakerVars>>

\* the wrapped function has returned: return await func(*args, **kwargs)
RetryFuncReturns ==
    /\ retry_pc = "func"
    /\ \E r \in FuncResults :
          /\ func_calls' = Append(func_calls, Returned(r))
          /\ retry_outcome' = Returned(r)
    /\ retry_pc' = "returned"
    /\ UNCHANGED <<coreVars, historyVars, queueVars, cleanupVars, limiterVars, breakerVars, llmBreakerVars,
                   retry_cfg, attempt, last_exception, on_retry_calls, retry_runs>>

\* the wrapped function has raised: an exception outside retry_exceptions
\* is not caught; one inside is kept, and the wrapper sleeps before the next
\* attempt or, after the last one, raises last_exception
RetryFuncRaises ==
    /\ retry_pc = "func"
    /\ \E e \in FuncExceptions :
          /\ func_calls' = Append(func_calls, Raising(e))
          /\ IF e \notin RetryExceptions
             THEN /\ retry_outcome' = Raising(e)
                  /\ retry_pc' = "raised"
                  /\ UNCHANGED <<last_exception, on_retry_calls>>
             ELSE /\ last_exception' = e
                  /\ IF MoreAttempts(attempt, retry_cfg.max_attempts)
                     THEN /\ on_retry_calls' =
                               IF retry_cfg.on_retry
                               THEN Append(on_retry_calls, <<e, attempt + 1>>)
                               ELSE on_retry_calls
                          /\ retry_pc' = "sleeping"
                          /\ UNCHANGED retry_outcome
                     ELSE /\ retry_outcome' = Raising(last_exception')
                          /\ retry_pc' = "raised"
                          /\ UNCHANGED on_retry_calls
    /\ UNCHANGED <<coreVars, historyVars, queueVars, cleanupVars, limiterVars, breakerVars, llmBreakerVars,
                   retry_cfg, attempt, retry_runs>>

\* asyncio.sleep(delay) is over: the next iteration calls the function
RetryWakes ==
    /\ retry_pc = "sleeping"
    /\ attempt' = attempt + 1
    /\ retry_pc' = "func"
    /\ UNCHANGED <<coreVars, historyVars, queueVars, cleanupVars, limiterVars, breakerVars, llmBreakerVars,
                   retry_cfg, last_exception, retry_outcome, func_calls,
                   on_retry_calls, retry_runs>>

NextRetry ==
    \/ RetryCall
    \/ RetryFuncReturns
    \/ RetryFuncRaises
    \/ RetryWakes

SpecRetry == Init /\ [][NextRetry]_vars

(***************************************************************************)
(* Properties                                                              *)
(***************************************************************************)
\* the states of the store
Saved == {persisted[d] : d \in DateKeys} \ {NoState}

\* the states of the store and the state objects the triggers hold
Held == Saved \cup ({st[p] : p \in Procs} \ {NoState})

\* the timestamp of the message with this id
TsOf(id) == history[id].timestamp

\* the cleaned messages merged into a state, in time order
FoldedMessages(state) ==
    clean_messages(SelectSeq(history, LAMBDA m : m.message_id \in state.h_folded))

SumHours(f) == SumSeq([i \in 1 .. HoursPerDay |-> f[i - 1]])

\* C1: once two passes on the same (group, day) have both saved, the saved
\* state contains both merges: its batch count is the number of passes that
\* saved and its message count is the sum of their batches' message counts.
C1_NoLostUpdate ==
    \A d \in DateKeys :
       committed[d].passes > 0 =>
          /\ persisted[d].total_analysis_count = committed[d].passes
          /\ persisted[d].total_message_count = committed[d].messages

\* C2: no operation lowers the saved lastAnalyzedMessageTimestamp of a day.
C2_WatermarkNeverDecreases ==
    [][/\ last_ts' >= last_ts
       /\ \A d \in DateKeys :
             persisted[d] # NoState =>
                persisted'[d].last_analyzed_message_timestamp
                   >= persisted[d].last_analyzed_message_timestamp]_vars

\* C2, for the state of the day alone: no save lowers its watermark.
C2_SavedWatermarkNeverDecreases ==
    [][\A d \in DateKeys :
          persisted[d] # NoState =>
             persisted'[d].last_analyzed_message_timestamp
                >= persisted[d].last_analyzed_message_timestamp]_vars

\* C3 as stated: after two sequential passes of which the second fetched
\* again messages the first had fetched, totalMessageCount is the number of
\* distinct messages fetched, told apart by timestamp (or, read generously,
\* the number of distinct messages fetched).
C3_DistinctFetched ==
    \A s \in Saved :
       (s.total_analysis_count >= 2 /\ s.h_refetched # {}) =>
          \/ s.total_message_count = Cardinality({TsOf(id) : id \in s.h_fetched})
          \/ s.total_message_count = Cardinality(s.h_fetched)

\* C3, amended: after sequential passes totalMessageCount is the number of
\* distinct messages that passed the watermark filter, each counted once
\* however often it was fetched; a fetched message is left out exactly when a
\* message with the same timestamp, sent before it, had already been merged.
C3_OverlapDedup ==
    \A s \in Saved :
       /\ s.total_message_count = Cardinality(s.h_folded)
       /\ s.h_folded \subseteq s.h_fetched
       /\ \A id \in s.h_fetched \ s.h_folded :
             \E id2 \in s.h_folded : id2 < id /\ TsOf(id2) = TsOf(id)

C3_Witness ==
    \E s \in Saved :
       /\ s.total_analysis_count = 2
       /\ s.h_refetched # {}
       /\ s.h_fetched # s.h_folded

\* the batches merged into acc are a partition of the day's cleaned messages
\* into consecutive runs, merged in time order
IsPartition ==
    /\ merged # << >>
    /\ merged[1].from = 1
    /\ merged[Len(merged)].to = Len(Day)
    /\ \A k \in 1 .. Len(merged) - 1 : merged[k + 1].from = merged[k].to + 1

\* C4: when the day's messages are split into time-ordered batches that do
\* not overlap and all are merged in order, totalMessageCount is the message
\* count of one calculation over the whole day.
C4_PartitionCount ==
    IsPartition =>
       acc.total_message_count = calculate_group_statistics(Day).message_count

C4_Witness ==
    /\ IsPartition
    /\ Len(merged) = 2
    /\ Len(Day) = MaxDayMsgs
    /\ acc.total_message_count = MaxDayMsgs

\* the fields of a one-shot calculation that the final statistics also have
OneShot(messages) ==
    LET g == calculate_group_statistics(messages)
    IN  [message_count |-> g.message_count,
         total_characters |-> g.total_characters,
         participant_count |-> Cardinality(g.participants),
         hourly_activity |-> g.hour_counts,
         emoji_statistics |-> g.emoji_statistics]

C6_TotalIsHourlySum ==
    \A s \in Held : s.total_message_count = SumHours(s.hourly_message_counts)

C6_Witness ==
    \E s \in Held :
       /\ s.total_analysis_count = 2
       /\ s.total_message_count >= 4
       /\ s.total_character_count # s.total_message_count
       /\ \E h \in Hours : s.hourly_message_counts[h] \notin {0, s.total_message_count}

\* C7: topics and goldenQuotes are never longer than their caps, and they
\* are always the most recently appended entries, in the order appended.
C7_CappedFifo ==
    \A s \in Held :
       /\ Len(s.topics) <= MaxTopics
       /\ Len(s.golden_quotes) <= MaxQuotes
       /\ s.topics = LastN(s.h_topics, MaxTopics)
       /\ s.golden_quotes = LastN(s.h_quotes, MaxQuotes)

C7_Witness ==
    \E s \in Held :
       /\ Len(s.h_topics) > MaxTopics
       /\ Len(s.h_quotes) > MaxQuotes
       /\ Len(s.topics) = MaxTopics

\* the state the k-th batch was merged into, and the state that came of it
Into(k) == merged[k].into

Outcome(k) == IF k = Len(merged) THEN acc ELSE merged[k + 1].into

\* the k-th batch was not newer than the watermark when it was merged
StaleMerge(k) ==
    /\ Into(k).total_analysis_count > 0
    /\ last_message_timestamp(SliceOf(merged[k]))
          <= Into(k).last_analyzed_message_timestamp

\* C8: merging a batch whose last timestamp is at or before the watermark
\* adds the batch's messages, characters and per-hour counts to the totals
\* and leaves lastAnalyzedMessageTimestamp as it was.
C8_StaleBatchMerged ==
    \A k \in 1 .. Len(merged) :
       StaleMerge(k) =>
          LET g == calculate_group_statistics(SliceOf(merged[k]))
          IN  /\ Outcome(k).total_message_count
                    = Into(k).total_message_count + g.message_count
              /\ Outcome(k).total_character_count
                    = Into(k).total_character_count + g.total_characters
              /\ \A h \in Hours :
                    Outcome(k).hourly_message_counts[h]
                       = Into(k).hourly_message_counts[h] + g.hour_counts[h]
              /\ Outcome(k).all_participant_ids
                    = Into(k).all_participant_ids \cup g.participants
              /\ Outcome(k).total_analysis_count = Into(k).total_analysis_count + 1
              /\ Outcome(k).last_analyzed_message_timestamp
                    = Into(k).last_analyzed_message_timestamp

C8_Witness ==
    /\ Len(merged) = 2
    /\ StaleMerge(2)
    /\ last_message_timestamp(SliceOf(merged[2]))
          < last_message_timestamp(SliceOf(merged[1]))
    /\ acc.last_analyzed_message_timestamp = last_message_timestamp(SliceOf(merged[1]))
    /\ acc.total_message_count = Len(SliceOf(merged[1])) + Len(SliceOf(merged[2]))

\* the totals of a state
Totals(state) ==
    [total_message_count |-> state.total_message_count,
     total_character_count |-> state.total_character_count,
     hourly_message_counts |-> state.hourly_message_counts,
     hourly_character_counts |-> state.hourly_character_counts,
     user_counts |->
        [u \in DOMAIN state.user_activities |->
           [message_count |-> state.user_activities[u].message_count,
            char_count |-> state.user_activities[u].char_count,
            emoji_count |-> state.user_activities[u].emoji_count,
            active_hours |-> state.user_activities[u].active_hours,
            last_message_time |-> state.user_activities[u].last_message_time]],
     emoji_counts |-> state.emoji_counts,
     total_token_usage |-> state.total_token_usage,
     all_participant_ids |-> state.all_participant_ids,
     last_analyzed_message_timestamp |-> state.last_analyzed_message_timestamp]

TimestampsOf(b) == {SliceOf(b)[i].timestamp : i \in 1 .. Len(SliceOf(b))}

\* two batches were merged and no timestamp occurs in both
TwoDisjointBatches ==
    /\ Len(merged) = 2
    /\ TimestampsOf(merged[1]) \cap TimestampsOf(merged[2]) = {}

\* C9: two batches with no timestamp in common give the same totals merged
\* into a fresh state in either order.
C9_MergeCommutes ==
    TwoDisjointBatches =>
       /\ Totals(acc) = Totals(MergeAll(EmptyState(0), merged))
       /\ Totals(acc) = Totals(MergeAll(EmptyState(0), <<merged[2], merged[1]>>))

C9_Witness ==
    /\ TwoDisjointBatches
    /\ last_message_timestamp(SliceOf(merged[1]))
          > last_message_timestamp(SliceOf(merged[2]))
    /\ Cardinality(acc.all_participant_ids) = 2
    /\ acc.total_message_count = MaxDayMsgs

\* C10: a pass that has fewer messages than the threshold after the
\* watermark filter returns with the store exactly as it was when the pass
\* started: nothing merged, no watermark moved, no new state saved.
C10_BelowThresholdNoChange ==
    \A p \in Procs :
       (/\ pc[p] = "done"
        /\ result[p].reason # "no_messages"
        /\ Len(unified[p]) < IncrementalMinMessages)
          => persisted = before[p]

C10_Witness ==
    \E p \in Procs :
       /\ pc[p] = "done"
       /\ result[p] = Result(FALSE, "below_threshold")
       /\ Len(unified[p]) > 0
       /\ persisted = before[p]
       /\ persisted[key[p]] = NoState

\* C11: a pass in which the fetch returns nothing, or in which fewer
\* messages than the threshold are left after the filter, ends with a
\* successful result.
C11_NoDataIsSuccess ==
    \A p \in Procs :
       (pc[p] = "done" /\ result[p].reason \in {"no_messages", "below_threshold"})
          => result[p].success

\* C12: a pass never returns success while the store lacks its merge: when
\* the save reports failure the pass does not report success.
C12_SuccessMeansSaved ==
    \A p \in Procs :
       (pc[p] = "done" /\ result[p].success) =>
          /\ fault[p] # "save"
          /\ persisted[key[p]] # NoState
          /\ IdsOf(unified[p]) \subseteq persisted[key[p]].h_folded

C14_NoExceptionEscapes ==
    \A p \in Procs : result[p].exception = ""

\* C19: get_or_create_state on a key with no stored state hands out a zeroed
\* state and writes nothing: a get for the key still finds nothing.
C19_GetOrCreateWritesNothing ==
    \A p \in Procs :
       (/\ \/ pc[p] = "analyzing"
           \/ pc[p] = "done" /\ result[p].reason = "below_threshold"
        /\ before[p][key[p]] = NoState)
          => /\ st[p] = EmptyState(key[p])
             /\ get_state(persisted, key[p]) = NoState

C19_Witness ==
    \E p \in Procs :
       /\ pc[p] = "analyzing"
       /\ before[p][key[p]] = NoState
       /\ st[p].total_message_count = 0
       /\ st[p].last_analyzed_message_timestamp = 0
       /\ get_state(persisted, key[p]) = NoState

\* C20: merging an empty batch (no messages, no per-user deltas, no topics or
\* quotes, zero token usage, timestamp 0) raises no error and leaves every
\* running total, histogram, list, the participant set and the watermark as
\* they were; only the count of merged batches goes up by one.
C20_EmptyBatchNoOp ==
    \A k \in 1 .. Len(merged) :
       SliceOf(merged[k]) = << >> =>
          Outcome(k) = [Into(k) EXCEPT !.total_analysis_count = @ + 1]

C20_Witness ==
    /\ Len(merged) = 2
    /\ SliceOf(merged[1]) # << >>
    /\ SliceOf(merged[2]) = << >>
    /\ acc.topics # << >>
    /\ acc.last_analyzed_message_timestamp > 0
    /\ acc.topics = Into(2).topics
    /\ Totals(acc) = Totals(Into(2))

\* C15: a final report on a day for which no state exists, or whose state has
\* no merged batch, returns the no-incremental-data failure and does nothing
\* else: no title call is made, no state is saved and no summary is written
\* to the history store.
C15_NoDataFinalReport ==
    (/\ fpc \in {"done", "raised"}
     /\ (floaded = NoState \/ floaded.total_analysis_count = 0))
       => /\ fresult = Result(FALSE, "no_incremental_data")
          /\ title_calls = 0
          /\ fsaves = 0
          /\ summaries = hbefore
          /\ analysis_result = NoAnalysisResult

C15_Witness ==
    /\ fpc = "done"
    /\ floaded = NoState
    /\ fresult.reason = "no_incremental_data"
    /\ Len(history) >= IncrementalMinMessages
    /\ summaries = << >>

\* C16 as stated: the final report changes no running total of the state
\* object it loaded.
C16_TotalsOnlyByMerge ==
    fst # NoState => Totals(fst) = Totals(floaded)

\* C16: the final report changes nothing of the state it loaded but the token
\* totals, to which it adds the usage of its title call; every other running
\* total, list and the watermark are as the merges left them, before and
\* after the result is materialized.
C16_FinalReportAddsTitleTokensOnly ==
    fst # NoState =>
       fst = [floaded EXCEPT
                !.total_token_usage =
                   [prompt_tokens |-> @.prompt_tokens + title_usage.prompt_tokens,
                    completion_tokens |->
                       @.completion_tokens + title_usage.completion_tokens,
                    total_tokens |-> @.total_tokens + title_usage.total_tokens]]

C16_Witness ==
    /\ fpc = "done"
    /\ fresult.success
    /\ title_usage.total_tokens > 0
    /\ fst.total_token_usage.total_tokens
          = floaded.total_token_usage.total_tokens + title_usage.total_tokens
    /\ get_state(persisted, fst.date_str) # NoState
    /\ get_state(persisted, fst.date_str).total_token_usage = fst.total_token_usage

\* C17: the materializer only reads the state: every field of the state
\* object is the same after build_analysis_result as it was before.
C17_MaterializerReadsOnly ==
    unbuilt # NoState => fst = unbuilt

C17_Witness ==
    /\ fpc = "recording"
    /\ unbuilt # NoState
    /\ analysis_result # NoAnalysisResult
    /\ Len(analysis_result.topics) > 0
    /\ Len(analysis_result.statistics.golden_quotes) > 0
    /\ analysis_result.statistics.message_count = unbuilt.total_message_count
    /\ fst.topics = unbuilt.topics

\* the batch ids that have data, and those the index names
DataIds == DOMAIN kv_batches

IndexIds == {kv_index[i].batch_id : i \in 1 .. Len(kv_index)}

\* C18: a save that fails or is cancelled before it completes leaves the
\* persisted data as it was; no batch data is visible without its index
\* entry, and no index entry without its data.
C18_NoPartialSave ==
    /\ (sb_pc = "returned" /\ sb_result # "True")
          => /\ kv_batches = sb_before.batches
             /\ kv_index = sb_before.index
    /\ sb_pc \in {"idle", "returned"} => DataIds = IndexIds

\* C21: in every state, saved or held by a pass, every user id that is a key
\* of userActivity is a member of allParticipantIds.
C21_UsersAreParticipants ==
    \A s \in Held : DOMAIN s.user_activities \subseteq s.all_participant_ids

C21_Witness ==
    \E s \in Held :
       /\ s.total_analysis_count = 2
       /\ Cardinality(DOMAIN s.user_activities) >= 2
       /\ Cardinality(s.all_participant_ids) >= 2
       /\ \E u \in DOMAIN s.user_activities : s.user_activities[u].message_count >= 2

\* the messages, characters and messages of hour h in the batches merged so far
BatchMessagesSum == SumSeq([k \in 1 .. Len(merged) |-> Len(SliceOf(merged[k]))])

BatchCharactersSum ==
    SumSeq([k \in 1 .. Len(merged) |->
       SumSeq([i \in 1 .. Len(SliceOf(merged[k])) |->
          get_text_length(SliceOf(merged[k])[i])])])

BatchHourSum(h) ==
    SumSeq([k \in 1 .. Len(merged) |->
       Cardinality({i \in 1 .. Len(SliceOf(merged[k])) :
                      HourOf(SliceOf(merged[k])[i].timestamp) = h})])

\* C22: after n merges into a fresh state, totalBatchCount is n,
\* totalMessageCount and totalCharacterCount are the sums of the batches'
\* counts, and each hourly slot is the sum of the batches' deltas for the hour.
C22_TotalsAreSums ==
    /\ acc.total_analysis_count = Len(merged)
    /\ acc.total_message_count = BatchMessagesSum
    /\ acc.total_character_count = BatchCharactersSum
    /\ \A h \in Hours : acc.hourly_message_counts[h] = BatchHourSum(h)

C22_Witness ==
    /\ Len(merged) = 2
    /\ acc.total_analysis_count = 2
    /\ \E h \in Hours :
          /\ acc.hourly_message_counts[h] >= 3
          /\ \E i \in 1 .. Len(SliceOf(merged[1])) :
                HourOf(SliceOf(merged[1])[i].timestamp) = h
          /\ \E i \in 1 .. Len(SliceOf(merged[2])) :
                HourOf(SliceOf(merged[2])[i].timestamp) = h
    /\ \E h \in Hours : acc.hourly_message_counts[h] \notin {0, acc.total_message_count}
    /\ acc.total_character_count > acc.total_message_count

\* the stages of a pass that saves, in order
AllStages ==
    <<"fetching", "filtering", "thresholdCheck", "analyzing", "merging",
      "persisting", "done">>

IsPrefix(s, t) == Len(s) <= Len(t) /\ s = SubSeq(t, 1, Len(s))

\* the pass of trigger p has ended
Ended(p) == pc[p] \in {"done", "raised"}

C26_SameTimestampTogether ==
    \A p \in Procs :
       (\/ pc[p] = "analyzing"
        \/ pc[p] = "done" /\ result[p].reason = "below_threshold")
          => /\ \A i \in fetched[p] :
                   TsOf(i) = st[p].last_analyzed_message_timestamp
                      => i \notin IdsOf(unified[p])
             /\ \A i, j \in fetched[p] :
                   TsOf(i) = TsOf(j)
                      => (i \in IdsOf(unified[p]) <=> j \in IdsOf(unified[p]))

C26_Witness ==
    \E p \in Procs :
       /\ pc[p] = "analyzing"
       /\ st[p].last_analyzed_message_timestamp > 0
       /\ \E i \in fetched[p] \ st[p].h_folded :
          \E j \in fetched[p] \cap st[p].h_folded :
             /\ TsOf(i) = st[p].last_analyzed_message_timestamp
             /\ TsOf(j) = TsOf(i)
             /\ i \notin IdsOf(unified[p])
             /\ j \notin IdsOf(unified[p])

\* two time slots are the same but for ':' written for '-'
SameSlot(a, b) ==
    /\ Len(a) = Len(b)
    /\ \A i \in 1 .. Len(a) : a[i] = b[i] \/ {a[i], b[i]} = {":", "-"}

\* the time slot written with '-'
Dashed(t) == [i \in 1 .. Len(t) |-> IF t[i] \in {":", "-"} THEN "-" ELSE t[i]]

\* C24: after save_analysis(group, result, date, time) has succeeded,
\* has_history(group, date, time) is true; has_history is false for every
\* (group, date, time slot) for which nothing was saved; the record is under
\* the key analysis_{group}_{date}_{time}, ':' in the time slot counting as '-'.
C24_SavedIffHasHistory ==
    /\ \A g \in GroupIds, d \in DateStrs, t \in TimeSlots :
          has_history(summaries, g, d, t)
             <=> \E r \in recorded : r[1] = g /\ r[2] = d /\ SameSlot(r[3], t)
    /\ DOMAIN summaries =
          {<<"a", "n", "a", "l", "y", "s", "i", "s", "_">> \o r[1] \o <<"_">> \o r[2]
              \o <<"_">> \o Dashed(r[3]) : r \in recorded}

C24_Witness ==
    /\ <<GroupId, <<"0", "8">>, <<"1", ":", "0">>>> \in recorded
    /\ Cardinality(recorded) = 1
    /\ hsaves = 2
    /\ has_history(summaries, GroupId, <<"0", "8">>, <<"1", "-", "0">>)
    /\ ~has_history(summaries, <<"4">>, <<"0", "8">>, <<"1", "-", "0">>)
    /\ ~has_history(summaries, GroupId, <<"0", "8">>, <<"2", "-", "0">>)
    /\ ~has_history(summaries, GroupId, <<"0", "9">>, <<"1", ":", "0">>)

\* how often a task id occurs in a sequence of ids
Occurrences(ids, id) == Cardinality({i \in 1 .. Len(ids) : ids[i] = id})

\* C25: a retry task whose processing keeps failing is attempted at most
\* max_retries times; on the failure that brings retry_count to max_retries it
\* is put on the dead-letter queue exactly once, is never on the queue again,
\* and the text fallback is called once for it.
C25_BoundedRetries ==
    \A id \in DOMAIN retry_tasks :
       LET task == retry_tasks[id]
       IN  /\ task.h_attempts <= task.max_retries
           /\ task.retry_count <= task.h_attempts
           /\ Occurrences(dlq, id) = (IF task.retry_count = task.max_retries THEN 1 ELSE 0)
           /\ task.h_fallbacks = Occurrences(dlq, id)
           /\ Occurrences(dlq, id) = 1 =>
                 /\ Occurrences(retry_queue, id) = 0
                 /\ id \notin requeueing

C25_Witness ==
    \E id \in DOMAIN retry_tasks :
       /\ retry_tasks[id].retry_count = MaxRetries
       /\ retry_tasks[id].h_attempts = MaxRetries
       /\ retry_tasks[id].h_fallbacks = 1
       /\ dlq = <<id>>
       /\ worker_pc = "getting"

\* the failures at the end of a history of the breaker: those recorded since
\* the last success or reset
RECURSIVE TrailingFailures(_)
TrailingFailures(log) ==
    IF log = << >> \/ log[Len(log)].kind # "failure"
    THEN 0
    ELSE 1 + TrailingFailures(SubSeq(log, 1, Len(log) - 1))

\* in a history of a breaker, every record made in CLOSED opens the breaker
\* exactly when it is a failure and the failure_threshold-th in a row, and
\* every success recorded in CLOSED leaves the failure count at 0
OpensAtThreshold(log, closed, open) ==
    \A i \in 1 .. Len(log) :
       log[i].before = closed =>
          /\ (log[i].after = open) =
                (/\ log[i].kind = "failure"
                 /\ TrailingFailures(SubSeq(log, 1, i)) = FailureThreshold)
          /\ log[i].kind = "success" => log[i].failure_count = 0

\* C27: a CLOSED circuit breaker, of either module, moves to OPEN exactly at
\* the record of a failure that is the failure_threshold-th in a row, with
\* no success recorded in between, and a success recorded in CLOSED leaves
\* the failure count at 0.
C27_OpensAtThreshold ==
    /\ OpensAtThreshold(events, "closed", "open")
    /\ OpensAtThreshold(llm_events, "CLOSED", "OPEN")

\* on one breaker a failure, then a success that resets the count, then
\* failure_threshold failures in a row that open it; the other breaker
\* opened as well
C27_Witness ==
    /\ \E i \in 1 .. Len(events) :
          /\ i + 1 + FailureThreshold <= Len(events)
          /\ events[i].kind = "failure" /\ events[i].after = "closed"
          /\ events[i + 1].kind = "success" /\ events[i + 1].before = "closed"
          /\ \A j \in 2 .. 1 + FailureThreshold : events[i + j].kind = "failure"
          /\ events[i + 1 + FailureThreshold].before = "closed"
          /\ events[i + 1 + FailureThreshold].after = "open"
    /\ \E i \in 1 + FailureThreshold .. Len(llm_events) :
          /\ llm_events[i - FailureThreshold].kind = "success"
          /\ llm_events[i - FailureThreshold].before = "CLOSED"
          /\ llm_events[i].before = "CLOSED" /\ llm_events[i].after = "OPEN"

\* C28: a call of execute made while the breaker is OPEN and less than
\* recovery_timeout after the last recorded failure never invokes the
\* protected function; with a fallback it returns the fallback's result,
\* without one it raises.
C28_OpenRefuses ==
    \A c \in Callers :
       calls[c].refused =>
          /\ ~calls[c].invoked
          /\ IF calls[c].fallback
             THEN /\ calls[c].pc \in {"fallback", "returned"}
                  /\ calls[c].pc = "returned" => calls[c].outcome = "fallback"
             ELSE /\ calls[c].pc = "raised"
                  /\ calls[c].outcome = "breaker_open"

\* two calls refused by the OPEN breaker, one given a fallback
C28_Witness ==
    \E c, d \in Callers :
       /\ calls[c].refused /\ calls[c].pc = "returned"
       /\ calls[c].outcome = "fallback"
       /\ calls[d].refused /\ calls[d].pc = "raised"
       /\ breaker.state = "open"

\* the last call of the wrapped function
LastCall == func_calls[Len(func_calls)]

\* C29: the retrying wrapper calls the wrapped function at most
\* max_attempts times; every call but the last raised a retryable
\* exception, so a success or an exception outside retry_exceptions ends the
\* calls at once; the wrapper returns the result of the call that succeeded,
\* lets an exception outside retry_exceptions through, and raises the last
\* exception once max_attempts calls have raised a retryable one.
C29_RetriesBounded ==
    /\ Len(func_calls) <= retry_cfg.max_attempts
    /\ \A i \in 1 .. Len(func_calls) - 1 :
          /\ func_calls[i].kind = "raised"
          /\ func_calls[i].value \in RetryExceptions
    /\ retry_pc = "returned" =>
          /\ func_calls # << >>
          /\ LastCall.kind = "returned"
          /\ retry_outcome = LastCall
    /\ retry_pc = "raised" =>
          /\ func_calls # << >>
          /\ LastCall.kind = "raised"
          /\ retry_outcome = LastCall
          /\ LastCall.value \in RetryExceptions =>
                Len(func_calls) = retry_cfg.max_attempts
    /\ retry_pc = "sleeping" =>
          /\ Len(func_calls) < retry_cfg.max_attempts
          /\ LastCall.kind = "raised"
          /\ LastCall.value \in RetryExceptions
    /\ retry_pc = "func" => Len(func_calls) < retry_cfg.max_attempts

\* max_attempts calls have raised retryable exceptions, two different ones
\* at the end, and the wrapper has raised the last
C29_Witness ==
    /\ retry_pc = "raised"
    /\ retry_cfg.max_attempts = MaxAttempts
    /\ Len(func_calls) = MaxAttempts
    /\ func_calls[MaxAttempts - 1].value # func_calls[MaxAttempts].value
    /\ retry_outcome = Raising(func_calls[MaxAttempts].value)
    /\ retry_outcome.value \in RetryExceptions

\* C30: once save_batch has returned True for a batch and no cleanup is
\* under way, the batch has its entry in the index of the group, unless
\* its timestamp is before the cutoff of a cleanup.
C30_NoIndexEntryLost ==
    (/\ sb_pc = "returned"
     /\ sb_result = "True"
     /\ cl_pc \in {"idle", "returned", "raised"}
     /\ \A before_timestamp \in cutoffs : sb_batch.timestamp >= before_timestamp)
    => \E i \in 1 .. Len(kv_index) : kv_index[i] = IndexEntry(sb_batch)

\* C31: when a save_batch call has returned, whatever it returned, every
\* entry that was in the stored index when it was called is still there.
C31_IndexEntriesKept ==
    sb_pc = "returned" =>
       \A i \in 1 .. Len(sb_before.index) :
          \E j \in 1 .. Len(kv_index) : kv_index[j] = sb_before.index[i]

\* the batch ids the index names whose batch key holds no data
Dangling ==
    {id \in IndexIds : id \notin DOMAIN kv_batches \/ kv_batches[id] = None}

\* C32: when no call of the store is under way, every batch_id the index
\* lists has batch data stored under its batch key.
C32_IndexedBatchesHaveData ==
    (sb_pc \in {"idle", "returned"} /\ cl_pc \in {"idle", "returned", "raised"})
    => Dangling = {}

\* C33: no message is folded into the saved states of two calendar days.
C33_OneDayPerMessage ==
    \A d1, d2 \in DateKeys :
       (d1 # d2 /\ persisted[d1] # NoState /\ persisted[d2] # NoState)
       => persisted[d1].h_folded \cap persisted[d2].h_folded = {}

\* C34: once the final report has saved the state with the title token
\* cost, the saved state of every day still contains every merge that a
\* pass persisted: its batch count and message count are those of the
\* passes that saved.
C34_FinalSaveKeepsMerge ==
    fsaves > 0 =>
       \A d \in DateKeys :
          committed[d].passes > 0 =>
             /\ persisted[d].total_analysis_count = committed[d].passes
             /\ persisted[d].total_message_count = committed[d].messages

\* C35: a final report that loads the state exactly as the final report
\* before it saved it, no merge having come in between, saves that state
\* again unchanged, token usage included.
C35_FinalizeIdempotent ==
    \A i \in 2 .. Len(final_saves) :
       final_saves[i].loaded = final_saves[i - 1].saved
       => final_saves[i].saved = final_saves[i - 1].saved

\* the places a retry task is in: the queue, the worker that processes it,
\* a delayed requeue that is asleep, the dead-letter queue, the tasks sent
InQueue(id) == Cardinality({i \in 1 .. Len(retry_queue) : retry_queue[i] = id})

InDlq(id) == Cardinality({i \in 1 .. Len(dlq) : dlq[i] = id})

Places(id) ==
    InQueue(id) + InDlq(id)
    + (IF worker_pc = "processing" /\ worker_task = id THEN 1 ELSE 0)
    + (IF id \in requeueing THEN 1 ELSE 0)
    + (IF retry_tasks[id].h_sent THEN 1 ELSE 0)

\* C36: every task add_task accepted is in exactly one place at every
\* moment: the queue, the worker, a pending delayed requeue, the dead-letter
\* queue, or the tasks sent.
C36_NoTaskLost == \A id \in 1 .. Len(retry_tasks) : Places(id) = 1

\* the task was accepted by add_task; it was sent or is on the dead-letter
\* queue
Accepted(id) == id <= Len(retry_tasks)

Settled(id) == Accepted(id) /\ (retry_tasks[id].h_sent \/ InDlq(id) > 0)

\* C37: while the manager keeps running, every task that add_task accepted
\* is in the end sent or on the dead-letter queue.
C37_EveryTaskSettles == \A id \in 1 .. MaxTasks : Accepted(id) ~> Settled(id)

\* a task has gone round max_retries times and is on the dead-letter queue,
\* and another task was sent after it had failed once
C37_Witness ==
    /\ running
    /\ \E id, other \in 1 .. Len(retry_tasks) :
          /\ InDlq(id) > 0
          /\ retry_tasks[id].h_attempts = MaxRetries
          /\ retry_tasks[other].h_sent
          /\ retry_tasks[other].h_attempts > 1

\* the successes recorded in the half-open period in which a history of the
\* breaker ends: those at its end recorded in HALF_OPEN with no record in
\* between that left HALF_OPEN
RECURSIVE SuccessesThisPeriod(_)
SuccessesThisPeriod(log) ==
    IF log = << >> \/ log[Len(log)].before # "half_open"
    THEN 0
    ELSE (IF log[Len(log)].kind = "success" THEN 1 ELSE 0)
         + (IF Len(log) > 1 /\ log[Len(log) - 1].after = "half_open"
            THEN SuccessesThisPeriod(SubSeq(log, 1, Len(log) - 1))
            ELSE 0)

\* C38: a record of success moves the breaker from HALF_OPEN to CLOSED only
\* when half_open_max_calls successes have been recorded in the current
\* half-open period.
C38_ClosesAfterSuccesses ==
    \A i \in 1 .. Len(events) :
       (/\ events[i].kind = "success"
        /\ events[i].before = "half_open"
        /\ events[i].after = "closed")
       => SuccessesThisPeriod(SubSeq(events, 1, i)) >= HalfOpenMaxCalls

(***************************************************************************)
(* RateLimiter: the token bucket.  Time is kept as the time since          *)
(* _last_update and, for a call with a timeout, the time since its         *)
(* start_time; past RlFillTime the bucket is full whatever the time, and   *)
(* past the timeout the call gives up whatever the time.                   *)
(***************************************************************************)
Min2(a, b) == IF a <= b THEN a ELSE b

\* RateLimiter._refill: the tokens after elapsed units of time
refill(tokens, elapsed) == Min2(RlBurst, tokens + elapsed * RlRate)

\* tokens_needed / self.rate, in whole units of time
wait_time(tokens_needed) == (tokens_needed + RlRate - 1) \div RlRate

\* the call is between its start and its return
InAcquire(c) == rl_calls[c].pc \in {"lock", "loop", "sleep"}

\* time passes
LimiterTick ==
    /\ rl_elapsed' = Min2(rl_elapsed + 1, RlFillTime)
    /\ rl_sleep' = Max2(rl_sleep - 1, 0)
    /\ rl_calls' = [c \in Acquirers |->
                      IF InAcquire(c) /\ rl_calls[c].timeout # None
                      THEN [rl_calls[c] EXCEPT
                               !.waited = Min2(@ + 1, rl_calls[c].timeout.seconds)]
                      ELSE rl_calls[c]]
    /\ UNCHANGED <<coreVars, historyVars, queueVars, resilienceVars, cleanupVars,
                   rl_tokens, rl_lock, rl_waiters>>

\* acquire(tokens, timeout) up to "async with self._lock": the caller takes
\* the lock when it is free and nobody waits for it, and waits in line
\* otherwise
Acquire(c, tokens, timeout) ==
    /\ rl_calls[c].pc \in {"idle", "returned"}
    /\ LET call == [pc |-> "lock", tokens |-> tokens, timeout |-> timeout,
                    waited |-> 0, result |-> FALSE]
       IN IF rl_lock = Unlocked /\ rl_waiters = << >>
          THEN /\ rl_lock' = c
               /\ rl_calls' = [rl_calls EXCEPT ![c] = [call EXCEPT !.pc = "loop"]]
               /\ UNCHANGED rl_waiters
          ELSE /\ rl_waiters' = Append(rl_waiters, c)
               /\ rl_calls' = [rl_calls EXCEPT ![c] = call]
               /\ UNCHANGED rl_lock
    /\ UNCHANGED <<coreVars, historyVars, queueVars, resilienceVars, cleanupVars,
                   rl_tokens, rl_elapsed, rl_sleep>>

\* the lock is released and the first caller in line takes it
AcquireLockGranted(c) ==
    /\ rl_calls[c].pc = "lock"
    /\ rl_lock = Unlocked
    /\ rl_waiters # << >>
    /\ Head(rl_waiters) = c
    /\ rl_lock' = c
    /\ rl_waiters' = Tail(rl_waiters)
    /\ rl_calls' = [rl_calls EXCEPT ![c].pc = "loop"]
    /\ UNCHANGED <<coreVars, historyVars, queueVars, resilienceVars, cleanupVars,
                   rl_tokens, rl_elapsed, rl_sleep>>

\* one turn of the "while True" loop of acquire, made holding the lock
AcquireLoop(c) ==
    /\ rl_calls[c].pc = "loop"
    /\ LET call == rl_calls[c]
           tokens == refill(rl_tokens, rl_elapsed)
           tokens_needed == call.tokens - tokens
           remaining == call.timeout.seconds - call.waited
           wait == IF call.timeout # None
                   THEN Min2(wait_time(tokens_needed), remaining)
                   ELSE wait_time(tokens_needed)
       IN /\ rl_elapsed' = 0
          /\ IF tokens >= call.tokens
             THEN /\ rl_tokens' = tokens - call.tokens
                  /\ rl_calls' = [rl_calls EXCEPT ![c].pc = "returned",
                                                  ![c].result = TRUE]
                  /\ rl_lock' = Unlocked
                  /\ UNCHANGED rl_sleep
             ELSE IF call.timeout # None /\ call.waited >= call.timeout.seconds
             THEN /\ rl_tokens' = tokens
                  /\ rl_calls' = [rl_calls EXCEPT ![c].pc = "returned",
                                                  ![c].result = FALSE]
                  /\ rl_lock' = Unlocked
                  /\ UNCHANGED rl_sleep
             ELSE /\ rl_tokens' = tokens
                  /\ IF wait > 0
                     THEN /\ rl_calls' = [rl_calls EXCEPT ![c].pc = "sleep"]
                          /\ rl_sleep' = wait
                     ELSE UNCHANGED <<rl_calls, rl_sleep>>
                  /\ UNCHANGED rl_lock
    /\ UNCHANGED <<coreVars, historyVars, queueVars, resilienceVars, cleanupVars,
                   rl_waiters>>

\* asyncio.sleep(wait_time) returns
AcquireWakes(c) ==
    /\ rl_calls[c].pc = "sleep"
    /\ rl_sleep = 0
    /\ rl_calls' = [rl_calls EXCEPT ![c].pc = "loop"]
    /\ UNCHANGED <<coreVars, historyVars, queueVars, resilienceVars, cleanupVars,
                   rl_tokens, rl_elapsed, rl_lock, rl_waiters, rl_sleep>>

NextLimiter ==
    \/ LimiterTick
    \/ \E c \in Acquirers, tokens \in 1 .. MaxAsk, timeout \in Timeouts :
          Acquire(c, tokens, timeout)
    \/ \E c \in Acquirers : AcquireLockGranted(c)
    \/ \E c \in Acquirers : AcquireLoop(c)
    \/ \E c \in Acquirers : AcquireWakes(c)

\* time passes, and the event loop resumes a coroutine that can go on
SpecLimiter ==
    /\ Init
    /\ [][NextLimiter]_vars
    /\ WF_vars(LimiterTick)
    /\ \A c \in Acquirers :
          /\ WF_vars(AcquireLockGranted(c))
          /\ WF_vars(AcquireLoop(c))
          /\ WF_vars(AcquireWakes(c))

\* C39: every acquire(tokens) call with timeout=None eventually returns True,
\* whatever the token count and however many callers there are.
C39_AcquireReturnsTrue ==
    \A c \in Acquirers :
       (InAcquire(c) /\ rl_calls[c].timeout = None)
       ~> (rl_calls[c].pc = "returned" /\ rl_calls[c].result)

=============================================================================
